---- MODULE Spec2Model ----
(***************************************************************************)
(* jjdag: the event loop (main.rs, update.rs), the model's state and its   *)
(* handlers (model.rs), the chord trie (command_tree.rs) and the command   *)
(* descriptors (shell_out.rs), as one state machine.                       *)
(*                                                                         *)
(* Rust values are written as follows.  Option<T>: None is <<>> and        *)
(* Some(x) is <<x>>.  A Span is a record of its content and foreground     *)
(* colour, a Line is a sequence of Spans, a Text is a sequence of Lines.   *)
(* List indices (selected, saved_log_index) are 0-based as in the source.  *)
(***************************************************************************)
EXTENDS Integers, Sequences, FiniteSets, TLC

VARIABLES
  state,                        \* Model.state: "Running" or "Quit"
  command_keys,                 \* Model.command_keys: the chord in progress
  queued_jj_commands,           \* Model.queued_jj_commands
  accumulated_command_output,   \* Model.accumulated_command_output
  saved_change_id,              \* Model.saved_change_id: Option<String>
  saved_file_path,              \* Model.saved_file_path: Option<String>
  saved_log_index,              \* Model.saved_log_index: Option<usize>
  jj_log,                       \* Model.jj_log: the log tree (view model)
  selected,                     \* Model.log_list_state.selected()
  offset,                       \* Model.log_list_state.offset()
  log_list_layout,              \* Model.log_list_layout.height
  frame_height,                 \* the terminal's rows (frame.area().height)
  ignore_immutable,             \* Model.global_args.ignore_immutable
  revset,                       \* Model.revset
  info_list,                    \* Model.info_list: Option<Text>
  pc,                           \* position in tui_loop/update
  current_msg,                  \* update's local current_msg: Option<Message>
  batch,                        \* history: the list given to the last queue_jj_commands
  ran,                          \* history: the commands run since then, in order
  outs,                         \* history: the output lines surfaced by each of them
  owns_terminal,                \* the application owns the terminal (terminal.rs)
  ran_in_tick,                  \* history: commands run since the last draw
  last                          \* history: what the last step did

vars == <<state, command_keys, queued_jj_commands, accumulated_command_output,
          saved_change_id, saved_file_path, saved_log_index, jj_log, selected,
          offset, log_list_layout, frame_height,
          ignore_immutable, revset, info_list, pc, current_msg, batch, ran, outs,
          owns_terminal,
          ran_in_tick, last>>

----------------------------------------------------------------------------
(* Option, text *)

None == <<>>
Some(x) == <<x>>
IsSome(o) == o /= <<>>
Unwrap(o) == o[1]

SpanRaw(s) == [content |-> s, fg |-> "Reset"]
SpanStyled(s, colour) == [content |-> s, fg |-> colour]

\* ratatui Line::raw / Text::from(&str) of a one-line string: one raw span,
\* and no span at all for the empty string.
LineRaw(s) == IF s = "" THEN <<>> ELSE <<SpanRaw(s)>>
TextFrom(s) == <<LineRaw(s)>>

RECURSIVE Join(_, _)
Join(args, sep) ==
  IF Len(args) = 0 THEN ""
  ELSE IF Len(args) = 1 THEN args[1]
  ELSE args[1] \o sep \o Join(Tail(args), sep)

----------------------------------------------------------------------------
(* The view model (log_tree.rs is not part of the sources at hand): a log  *)
(* is a sequence of top-level nodes, a revision with its file diffs or an  *)
(* elided-revisions marker that resolves to no revision.  A tree position  *)
(* is <<i>> for node i and <<i, j>> for file j of node i (0-based).        *)

Commit(id, wc, described, files) ==
  [kind |-> "commit", change_id |-> id, current_working_copy |-> wc,
   description_first_line |-> IF described THEN Some("description") ELSE None,
   files |-> files, unfolded |-> FALSE]
Elided ==
  [kind |-> "elided", change_id |-> "", current_working_copy |-> FALSE,
   description_first_line |-> None, files |-> <<>>, unfolded |-> FALSE]

\* The logs the external tool can answer a load with.
LogA == << Commit("c1", TRUE, FALSE, <<"f1">>), Elided, Commit("c2", FALSE, TRUE, <<"f2">>) >>
LogB == << Commit("c3", TRUE, FALSE, <<>>), Commit("c1", FALSE, TRUE, <<"f1">>) >>
Logs == {LogA, LogB}

RECURSIVE flatten_from(_, _)
flatten_from(log, i) ==
  IF i > Len(log) THEN <<>>
  ELSE <<  <<i - 1>>  >>
       \o (IF log[i].unfolded
           THEN [j \in 1..Len(log[i].files) |-> <<i - 1, j - 1>>]
           ELSE <<>>)
       \o flatten_from(log, i + 1)

\* JjLog::flatten_log: the tree position of every row of the flat list.
flatten_log(log) == flatten_from(log, 1)

\* JjLog::get_tree_commit: the revision a position lies in, if any.
get_tree_commit(log, tree_pos) ==
  IF log[tree_pos[1] + 1].kind = "commit" THEN Some(log[tree_pos[1] + 1]) ELSE None

\* JjLog::get_tree_file_diff: the file diff a position lies in, if any.
get_tree_file_diff(log, tree_pos) ==
  IF Len(tree_pos) >= 2 THEN Some(log[tree_pos[1] + 1].files[tree_pos[2] + 1]) ELSE None

\* flat_log_idx of top-level node i (1-based i, 0-based result).
flat_log_idx(log, i) ==
  CHOOSE n \in 0..(Len(flatten_log(log)) - 1) : flatten_log(log)[n + 1] = <<i - 1>>

\* JjLog::get_current_commit: the working-copy revision, if the log has one.
get_current_commit(log) ==
  IF \E i \in 1..Len(log) : log[i].current_working_copy
  THEN Some(CHOOSE i \in 1..Len(log) : log[i].current_working_copy)
  ELSE None

\* JjLog::toggle_fold: fold or unfold the node the position lies in; the
\* row to select afterwards is that node's own row.
toggle_fold(log, tree_pos) ==
  LET i == tree_pos[1] + 1
      log2 == [log EXCEPT ![i].unfolded = ~log[i].unfolded]
  IN [log |-> log2, idx |-> flat_log_idx(log2, i)]

\* get_parent_tree_position: the position one level up, if there is one.
get_parent_tree_position(tree_pos) ==
  IF Len(tree_pos) > 1 THEN Some(SubSeq(tree_pos, 1, Len(tree_pos) - 1)) ELSE None

\* TreeNode::flat_log_idx of the node at a position that has a row.
node_flat_log_idx(log, tree_pos) ==
  CHOOSE n \in 0..(Len(flatten_log(log)) - 1) : flatten_log(log)[n + 1] = tree_pos

\* TreeNode::children of a revision: its file diffs.
children(log, tree_pos) == log[tree_pos[1] + 1].files

\* Text::lines.len() of a row of the flat list: every row is one line.
lines_in_node(log, row) == 1

----------------------------------------------------------------------------
(* The chord trie (command_tree.rs) *)

new_children == [children |-> TRUE, action |-> None]
new_action(action) == [children |-> FALSE, action |-> Some(action)]
new_action_with_children(action) == [children |-> TRUE, action |-> Some(action)]

Item(help_group_text, help_text, key_codes, node) ==
  [group |-> help_group_text, help |-> help_text, keys |-> key_codes, node |-> node]

\* CommandTree::new: the registrations, in source order.
CommandTreeItems ==
  <<
    Item("Commands", "Abandon", <<"a">>, new_children),
    Item("Abandon", "Selection", <<"a", "a">>, new_action("Abandon")),
    Item("Abandon", "Selection (retain bookmarks)", <<"a", "b">>, new_action("AbandonRetainBookmarks")),
    Item("Abandon", "Selection (restore descendants)", <<"a", "d">>, new_action("AbandonRestoreDescendants")),
    Item("Commands", "Absorb", <<"A">>, new_children),
    Item("Absorb", "From selection", <<"A", "a">>, new_action("Absorb")),
    Item("Absorb", "From selection into destination", <<"A", "i">>, new_action_with_children("SaveSelection")),
    Item("Absorb into", "Select destination", <<"A", "i", "Enter">>, new_action("AbsorbInto")),
    Item("Commands", "Bookmark", <<"b">>, new_children),
    Item("Bookmark", "Create at selection", <<"b", "c">>, new_action("BookmarkCreate")),
    Item("Bookmark", "Move", <<"b", "m">>, new_children),
    Item("Bookmark move", "Selected bookmark to destination", <<"b", "m", "m">>, new_action_with_children("SaveSelection")),
    Item("Move bookmark to", "Select destination", <<"b", "m", "m", "Enter">>, new_action("BookmarkMove")),
    Item("Bookmark move", "Selected bookmark to destination (allow backwards)", <<"b", "m", "M">>, new_action_with_children("SaveSelection")),
    Item("Move bookmark to, allowing backwards", "Select destination", <<"b", "m", "M", "Enter">>, new_action("BookmarkMoveAllowBackwards")),
    Item("Bookmark move", "Tug to selection", <<"b", "m", "t">>, new_action("BookmarkMoveTug")),
    Item("Bookmark", "Rename", <<"b", "r">>, new_action("BookmarkRename")),
    Item("Bookmark", "Track", <<"b", "t">>, new_action("BookmarkTrack")),
    Item("Bookmark", "Untrack", <<"b", "u">>, new_action("BookmarkUntrack")),
    Item("Bookmark", "Delete", <<"b", "d">>, new_action("BookmarkDelete")),
    Item("Bookmark", "Forget", <<"b", "f">>, new_action("BookmarkForget")),
    Item("Bookmark", "Forget, including remotes", <<"b", "F">>, new_action("BookmarkForgetIncludeRemotes")),
    Item("Bookmark", "Set to selection", <<"b", "s">>, new_action("BookmarkSet")),
    Item("Commands", "Commit", <<"c">>, new_children),
    Item("Commit", "Selection", <<"c", "c">>, new_action("Commit")),
    Item("Commands", "Describe", <<"d">>, new_children),
    Item("Describe", "Selection", <<"d", "d">>, new_action("Describe")),
    Item("Commands", "Duplicate", <<"D">>, new_children),
    Item("Duplicate", "Selection", <<"D", "d">>, new_action("Duplicate")),
    Item("Duplicate", "Selection onto destination", <<"D", "o">>, new_action_with_children("SaveSelection")),
    Item("Duplicate onto", "Select destination", <<"D", "o", "Enter">>, new_action("DuplicateOnto")),
    Item("Duplicate", "Selection insert after destination", <<"D", "a">>, new_action_with_children("SaveSelection")),
    Item("Duplicate insert after", "Select destination", <<"D", "a", "Enter">>, new_action("DuplicateInsertAfter")),
    Item("Duplicate", "Selection insert before destination", <<"D", "b">>, new_action_with_children("SaveSelection")),
    Item("Duplicate insert before", "Select destination", <<"D", "b", "Enter">>, new_action("DuplicateInsertBefore")),
    Item("Commands", "Edit", <<"e">>, new_children),
    Item("Edit", "Selection", <<"e", "e">>, new_action("Edit")),
    Item("Commands", "Evolog", <<"E">>, new_children),
    Item("Evolog", "Selection", <<"E", "e">>, new_action("Evolog")),
    Item("Evolog", "Selection (patch)", <<"E", "E">>, new_action("EvologPatch")),
    Item("Commands", "File", <<"f">>, new_children),
    Item("File", "Track (enter filepath)", <<"f", "t">>, new_action("FileTrack")),
    Item("File", "Untrack selection (must be ignored)", <<"f", "u">>, new_action("FileUntrack")),
    Item("Commands", "Git", <<"g">>, new_children),
    Item("Git", "Fetch", <<"g", "f">>, new_children),
    Item("Git fetch", "Default", <<"g", "f", "f">>, new_action("GitFetch")),
    Item("Git fetch", "All remotes", <<"g", "f", "a">>, new_action("GitFetchAllRemotes")),
    Item("Git fetch", "Tracked bookmarks", <<"g", "f", "t">>, new_action("GitFetchTracked")),
    Item("Git fetch", "Branch by name", <<"g", "f", "b">>, new_action("GitFetchBranch")),
    Item("Git fetch", "Remote by name", <<"g", "f", "r">>, new_action("GitFetchRemote")),
    Item("Git", "Push", <<"g", "p">>, new_children),
    Item("Git push", "Default", <<"g", "p", "p">>, new_action("GitPush")),
    Item("Git push", "All bookmarks", <<"g", "p", "a">>, new_action("GitPushAll")),
    Item("Git push", "Bookmarks at selection", <<"g", "p", "r">>, new_action("GitPushRevision")),
    Item("Git push", "Tracked bookmarks", <<"g", "p", "t">>, new_action("GitPushTracked")),
    Item("Git push", "Deleted bookmarks", <<"g", "p", "d">>, new_action("GitPushDeleted")),
    Item("Git push", "New bookmark for selection", <<"g", "p", "c">>, new_action("GitPushChange")),
    Item("Git push", "New named bookmark for selection", <<"g", "p", "n">>, new_action("GitPushNamed")),
    Item("Git push", "Bookmark by name", <<"g", "p", "b">>, new_action("GitPushBookmark")),
    Item("Commands", "Interdiff", <<"i">>, new_children),
    Item("Interdiff", "From @ to selection", <<"i", "t">>, new_action("InterdiffToSelection")),
    Item("Interdiff", "From selection to @", <<"i", "f">>, new_action("InterdiffFromSelection")),
    Item("Interdiff", "From selection to destination", <<"i", "i">>, new_action_with_children("SaveSelection")),
    Item("Interdiff to destination", "Select destination", <<"i", "i", "Enter">>, new_action("InterdiffFromSelectionToDestination")),
    Item("Commands", "Metaedit", <<"m">>, new_children),
    Item("Metaedit", "Update change-id", <<"m", "c">>, new_action("MetaeditUpdateChangeId")),
    Item("Metaedit", "Update author timestamp to now", <<"m", "t">>, new_action("MetaeditUpdateAuthorTimestamp")),
    Item("Metaedit", "Update author to configured user", <<"m", "a">>, new_action("MetaeditUpdateAuthor")),
    Item("Metaedit", "Set author", <<"m", "A">>, new_action("MetaeditSetAuthor")),
    Item("Metaedit", "Set author timestamp", <<"m", "T">>, new_action("MetaeditSetAuthorTimestamp")),
    Item("Metaedit", "Force rewrite", <<"m", "r">>, new_action("MetaeditForceRewrite")),
    Item("Commands", "New", <<"n">>, new_children),
    Item("New", "After selection", <<"n", "n">>, new_action("New")),
    Item("New", "After selection (rebase children)", <<"n", "a">>, new_action("NewInsertAfter")),
    Item("New", "Before selection (rebase children)", <<"n", "b">>, new_action("NewBefore")),
    Item("New", "After trunk", <<"n", "m">>, new_action("NewAfterTrunk")),
    Item("New", "After trunk (sync)", <<"n", "M">>, new_action("NewAfterTrunkSync")),
    Item("Commands", "Next", <<"N">>, new_children),
    Item("Commands", "Parallelize", <<"p">>, new_children),
    Item("Parallelize", "Selection with parent", <<"p", "p">>, new_action("Parallelize")),
    Item("Parallelize", "From selection to destination", <<"p", "P">>, new_action_with_children("SaveSelection")),
    Item("Parallelize range", "Select destination", <<"p", "P", "Enter">>, new_action("ParallelizeRange")),
    Item("Parallelize", "Revset", <<"p", "r">>, new_action("ParallelizeRevset")),
    Item("Next", "Next", <<"N", "n">>, new_action("Next")),
    Item("Next", "Nth next", <<"N", "N">>, new_action("NextOffset")),
    Item("Next", "Next (edit)", <<"N", "e">>, new_action("NextEdit")),
    Item("Next", "Nth next (edit)", <<"N", "E">>, new_action("NextEditOffset")),
    Item("Next", "Next (no-edit)", <<"N", "x">>, new_action("NextNoEdit")),
    Item("Next", "Nth next (no-edit)", <<"N", "X">>, new_action("NextNoEditOffset")),
    Item("Next", "Next conflict", <<"N", "c">>, new_action("NextConflict")),
    Item("Commands", "Previous", <<"P">>, new_children),
    Item("Previous", "Previous", <<"P", "p">>, new_action("Prev")),
    Item("Previous", "Nth previous", <<"P", "P">>, new_action("PrevOffset")),
    Item("Previous", "Previous (edit)", <<"P", "e">>, new_action("PrevEdit")),
    Item("Previous", "Nth previous (edit)", <<"P", "E">>, new_action("PrevEditOffset")),
    Item("Previous", "Previous (no-edit)", <<"P", "x">>, new_action("PrevNoEdit")),
    Item("Previous", "Nth previous (no-edit)", <<"P", "X">>, new_action("PrevNoEditOffset")),
    Item("Previous", "Previous conflict", <<"P", "c">>, new_action("PrevConflict")),
    Item("Commands", "Squash", <<"s">>, new_children),
    Item("Squash", "Selection into parent", <<"s", "s">>, new_action("Squash")),
    Item("Squash", "Selection into destination", <<"s", "i">>, new_action_with_children("SaveSelection")),
    Item("Squash into", "Select destination", <<"s", "i", "Enter">>, new_action("SquashInto")),
    Item("Commands", "Status", <<"t">>, new_action("Status")),
    Item("Commands", "Sign", <<"S">>, new_children),
    Item("Sign", "Selection", <<"S", "s">>, new_action("Sign")),
    Item("Sign", "From selection to destination", <<"S", "S">>, new_action_with_children("SaveSelection")),
    Item("Sign range", "Select destination", <<"S", "S", "Enter">>, new_action("SignRange")),
    Item("Sign", "Unsign selection", <<"S", "u">>, new_action("Unsign")),
    Item("Sign", "Unsign from selection to destination", <<"S", "U">>, new_action_with_children("SaveSelection")),
    Item("Unsign range", "Select destination", <<"S", "U", "Enter">>, new_action("UnsignRange")),
    Item("Commands", "Simplify parents", <<"y">>, new_children),
    Item("Simplify parents of", "Selection", <<"y", "y">>, new_action("SimplifyParents")),
    Item("Simplify parents of", "Selection with descendants", <<"y", "Y">>, new_action("SimplifyParentsSource")),
    Item("Commands", "Rebase", <<"r">>, new_children),
    Item("Rebase", "Selection onto trunk", <<"r", "m">>, new_action("RebaseOntoTrunk")),
    Item("Rebase", "Selected branch onto trunk", <<"r", "M">>, new_action("RebaseBranchOntoTrunk")),
    Item("Rebase", "Selection onto destination", <<"r", "o">>, new_action_with_children("SaveSelection")),
    Item("Rebase onto", "Select destination", <<"r", "o", "Enter">>, new_action("RebaseOntoDestination")),
    Item("Rebase", "Selected branch onto destination", <<"r", "O">>, new_action_with_children("SaveSelection")),
    Item("Rebase branch onto", "Select destination", <<"r", "O", "Enter">>, new_action("RebaseBranchOntoDestination")),
    Item("Rebase", "Selection onto destination (no descendants)", <<"r", "r">>, new_action_with_children("SaveSelection")),
    Item("Rebase revision onto", "Select destination", <<"r", "r", "Enter">>, new_action("RebaseOntoDestinationNoDescendants")),
    Item("Rebase", "Selection after destination", <<"r", "a">>, new_action_with_children("SaveSelection")),
    Item("Rebase after", "Select destination", <<"r", "a", "Enter">>, new_action("RebaseAfterDestination")),
    Item("Rebase", "Selection after destination (no descendants)", <<"r", "A">>, new_action_with_children("SaveSelection")),
    Item("Rebase after", "Select destination", <<"r", "A", "Enter">>, new_action("RebaseAfterDestinationNoDescendants")),
    Item("Rebase", "Selection before destination", <<"r", "b">>, new_action_with_children("SaveSelection")),
    Item("Rebase before", "Select destination", <<"r", "b", "Enter">>, new_action("RebaseBeforeDestination")),
    Item("Rebase", "Selection before destination (no descendants)", <<"r", "B">>, new_action_with_children("SaveSelection")),
    Item("Rebase before", "Select destination", <<"r", "B", "Enter">>, new_action("RebaseBeforeDestinationNoDescendants")),
    Item("Commands", "Restore", <<"R">>, new_children),
    Item("Restore", "Changes in selection", <<"R", "r">>, new_action("Restore")),
    Item("Restore", "Changes in selection (restore descendants)", <<"R", "d">>, new_action("RestoreRestoreDescendants")),
    Item("Restore", "From selection into @", <<"R", "f">>, new_action("RestoreFrom")),
    Item("Restore", "From @ into selection", <<"R", "i">>, new_action("RestoreInto")),
    Item("Restore", "From selection into destination", <<"R", "R">>, new_action_with_children("SaveSelection")),
    Item("Restore into", "Select destination", <<"R", "R", "Enter">>, new_action("RestoreFromInto")),
    Item("Commands", "View", <<"v">>, new_children),
    Item("View", "Selection", <<"v", "v">>, new_action("View")),
    Item("View", "From selection to @", <<"v", "f">>, new_action("ViewFromSelection")),
    Item("View", "From @ to selection", <<"v", "t">>, new_action("ViewToSelection")),
    Item("View", "From selection to destination", <<"v", "V">>, new_action_with_children("SaveSelection")),
    Item("View to destination", "Select destination", <<"v", "V", "Enter">>, new_action("ViewFromSelectionToDestination")),
    Item("Commands", "Revert", <<"V">>, new_children),
    Item("Revert", "Selection onto @", <<"V", "v">>, new_action("Revert")),
    Item("Revert", "Selection onto destination", <<"V", "o">>, new_action_with_children("SaveSelection")),
    Item("Revert onto", "Select destination", <<"V", "o", "Enter">>, new_action("RevertOntoDestination")),
    Item("Revert", "Selection after destination", <<"V", "a">>, new_action_with_children("SaveSelection")),
    Item("Revert after", "Select destination", <<"V", "a", "Enter">>, new_action("RevertInsertAfter")),
    Item("Revert", "Selection before destination", <<"V", "b">>, new_action_with_children("SaveSelection")),
    Item("Revert before", "Select destination", <<"V", "b", "Enter">>, new_action("RevertInsertBefore")),
    Item("Commands", "Undo", <<"u">>, new_children),
    Item("Undo", "Undo last operation", <<"u", "u">>, new_action("Undo")),
    Item("Undo", "Redo last operation", <<"u", "r">>, new_action("Redo"))
  >>

IsPrefix(s, t) == Len(s) <= Len(t) /\ SubSeq(t, 1, Len(s)) = s
Front(s) == SubSeq(s, 1, Len(s) - 1)

\* CommandTree::add_children, the body of its loop for one entry: the tree
\* is the map from each chord to its node (the root is the empty chord).
\* Inserting under a key already present replaces that node and its subtree;
\* an entry whose parent is missing or has no children makes the unwraps
\* panic, which leaves the tree marked as not built.
add_child(t, e) ==
  LET rest_keys == Front(e.keys) IN
  IF ~t.built \/ rest_keys \notin DOMAIN t.nodes \/ ~t.nodes[rest_keys].children
  THEN [built |-> FALSE, nodes |-> t.nodes]
  ELSE LET kept == {c \in DOMAIN t.nodes : ~IsPrefix(e.keys, c)}
       IN [built |-> TRUE,
           nodes |-> (e.keys :> e.node) @@ [c \in kept |-> t.nodes[c]]]

\* CommandTree::add_children: the entries lo..hi in order, one after the
\* other (the range is split in two to keep the evaluation shallow).
RECURSIVE add_children(_, _, _)
add_children(t, lo, hi) ==
  IF ~t.built \/ lo > hi THEN t
  ELSE IF lo = hi THEN add_child(t, CommandTreeItems[lo])
  ELSE LET mid == (lo + hi) \div 2
           first_half == add_children(t, lo, mid)
       IN add_children(first_half, mid + 1, hi)

\* CommandTree::new: the root, then every registration.
CommandTreeBuilt ==
  add_children([built |-> TRUE, nodes |-> (<<>> :> new_children)], 1, Len(CommandTreeItems))

CommandTree == CommandTreeBuilt.nodes

\* CommandTree::get_node: walk the chord from the root, one key at a time.
RECURSIVE get_node_from(_, _)
get_node_from(prefix, key_codes) ==
  IF Len(key_codes) = 0 THEN Some(CommandTree[prefix])
  ELSE IF ~CommandTree[prefix].children THEN None
  ELSE IF Append(prefix, Head(key_codes)) \notin DOMAIN CommandTree THEN None
  ELSE get_node_from(Append(prefix, Head(key_codes)), Tail(key_codes))

\* A lookup that descends one level only: a chord of two keys or more finds
\* nothing.
get_node_one_level(key_codes) ==
  IF Len(key_codes) > 1 THEN None ELSE get_node_from(<<>>, key_codes)

get_node(key_codes) == get_node_from(<<>>, key_codes)

----------------------------------------------------------------------------
(* Strings.  A Rust String is written as a TLA+ string; its characters are *)
(* the printable ASCII characters (the grave accent aside) and the four arrows of the navigation    *)
(* help.  Comparison, lower-casing and len() go through the code points.   *)

AsciiPrintable ==
  " !\"#$%&'()*+,-./0123456789:;<=>?@ABCDEFGHIJKLMNOPQRSTUVWXYZ[\\]^_"
AsciiLower == "abcdefghijklmnopqrstuvwxyz{|}~"
Arrows == "←↑→↓"

CharAt(s, i) == SubSeq(s, i, i)

\* The place of a character in a string that holds it.
IndexOf(s, c) == CHOOSE i \in 1..Len(s) : CharAt(s, i) = c
Chars(s) == {CharAt(s, i) : i \in 1..Len(s)}

\* The Unicode code point of each character: 32..95, 97..126 and
\* U+2190..U+2193.
CodePoints ==
  [c \in Chars(AsciiPrintable) \cup Chars(AsciiLower) \cup Chars(Arrows) |->
     IF c \in Chars(AsciiPrintable) THEN 31 + IndexOf(AsciiPrintable, c)
     ELSE IF c \in Chars(AsciiLower) THEN 96 + IndexOf(AsciiLower, c)
     ELSE 8591 + IndexOf(Arrows, c)]

\* str::is_ascii.
is_ascii(s) == \A i \in 1..Len(s) : CodePoints[CharAt(s, i)] < 128

\* The length of a character's UTF-8 encoding.
len_utf8(c) ==
  IF CodePoints[c] < 128 THEN 1 ELSE IF CodePoints[c] < 2048 THEN 2 ELSE 3

\* String::len: the length in bytes.
RECURSIVE len(_)
len(s) == IF Len(s) = 0 THEN 0 ELSE len_utf8(CharAt(s, 1)) + len(SubSeq(s, 2, Len(s)))

\* str::to_lowercase: only the letters A..Z of these characters change.
RECURSIVE to_lowercase(_)
to_lowercase(s) ==
  IF Len(s) = 0 THEN ""
  ELSE LET c == CharAt(s, 1) IN
       (IF CodePoints[c] >= 65 /\ CodePoints[c] <= 90
        THEN CharAt(AsciiLower, CodePoints[c] + 32 - 96) ELSE c)
         \o to_lowercase(SubSeq(s, 2, Len(s)))

\* Ord for String: Less, the byte-wise lexicographic order, which is the
\* order of the code points.
RECURSIVE str_less(_, _)
str_less(a, b) ==
  IF Len(b) = 0 THEN FALSE
  ELSE IF Len(a) = 0 THEN TRUE
  ELSE IF CharAt(a, 1) /= CharAt(b, 1)
       THEN CodePoints[CharAt(a, 1)] < CodePoints[CharAt(b, 1)]
  ELSE str_less(SubSeq(a, 2, Len(a)), SubSeq(b, 2, Len(b)))

\* str::repeat.
RECURSIVE repeat(_, _)
repeat(s, n) == IF n <= 0 THEN "" ELSE s \o repeat(s, n - 1)

\* usize::saturating_sub.
saturating_sub(a, b) == IF a >= b THEN a - b ELSE 0

----------------------------------------------------------------------------
(* The help listing (command_tree.rs).  HelpEntries, an IndexMap from a    *)
(* group label to a Vec of (key, help text), is a sequence of records      *)
(* [group, entries] in insertion order; an entry is <<key, help text>>.    *)

\* CommandTreeNodeChildren::add_child, its help part: the entry is pushed
\* to its group, and a label not seen before opens a new group at the end.
add_child_help(help, help_group_text, help_text, key_code) ==
  IF \E g \in 1..Len(help) : help[g].group = help_group_text
  THEN [g \in 1..Len(help) |->
          IF help[g].group = help_group_text
          THEN [help[g] EXCEPT !.entries = Append(@, <<key_code, help_text>>)]
          ELSE help[g]]
  ELSE Append(help, [group |-> help_group_text, entries |-> << <<key_code, help_text>> >>])

\* The help field of the children of the node at key_codes after
\* CommandTree::new: add_child_help for each of its registrations, in order.
RECURSIVE add_children_help(_)
add_children_help(items) ==
  IF Len(items) = 0 THEN <<>>
  ELSE LET e == items[Len(items)] IN
       add_child_help(add_children_help(Front(items)), e.group, e.help, e.keys[Len(e.keys)])

help(key_codes) ==
  add_children_help(SelectSeq(CommandTreeItems, LAMBDA e : Front(e.keys) = key_codes))

\* The comparison get_help_entries sorts by: Less on the first component
\* of the entries (the key), lower-cased; lower is FALSE in the variant
\* that takes the keys as they are.
key_less(a, b, lower) ==
  IF lower THEN str_less(to_lowercase(a[1]), to_lowercase(b[1]))
  ELSE str_less(a[1], b[1])

\* slice::sort_by with that comparison, a stable sort: every entry is
\* placed behind the entries already placed that are not greater than it.
RECURSIVE sort_by(_, _)
sort_by(entries, lower) ==
  IF Len(entries) = 0 THEN <<>>
  ELSE LET e == entries[Len(entries)]
           sorted == sort_by(Front(entries), lower)
           n == Cardinality({i \in 1..Len(sorted) : ~key_less(e, sorted[i], lower)})
       IN SubSeq(sorted, 1, n) \o <<e>> \o SubSeq(sorted, n + 1, Len(sorted))

\* A variant of get_help_entries that sorts the keys as they are.
get_help_entries_case_sensitive(help_entries) ==
  [g \in 1..Len(help_entries) |->
     [help_entries[g] EXCEPT !.entries = sort_by(@, FALSE)]]

\* CommandTreeNodeChildren::get_help_entries.
get_help_entries(help_entries) ==
  [g \in 1..Len(help_entries) |->
     [help_entries[g] EXCEPT !.entries = sort_by(@, TRUE)]]

COL_WIDTH == 26
MAX_ENTRIES_PER_COL == 14

\* slice::chunks.
RECURSIVE chunks(_, _)
chunks(s, n) ==
  IF Len(s) = 0 THEN <<>>
  ELSE IF Len(s) <= n THEN <<s>>
  ELSE <<SubSeq(s, 1, n)>> \o chunks(SubSeq(s, n + 1, Len(s)), n)

\* format!("{header:COL_WIDTH$}"): padded on the right to the width, counted
\* in characters, and left as it is when longer.
format_width(s, width) == s \o repeat(" ", width - Len(s))

\* render_help_text: the line of an entry.
help_entry_line(entry) ==
  LET key == entry[1]
      help_text == entry[2]
      num_cols == len(key) + 1 + len(help_text) - (IF ~is_ascii(key) THEN 2 ELSE 0)
      padding == repeat(" ", saturating_sub(COL_WIDTH, num_cols))
  IN << SpanStyled(key, "Green"), SpanRaw(" "), SpanRaw(help_text), SpanRaw(padding) >>

\* render_help_text: the columns of a group, one for each chunk of its
\* entries; the first has the group label as header, the others a blank one.
help_group_columns(group) ==
  LET cs == chunks(group.entries, MAX_ENTRIES_PER_COL) IN
  [i \in 1..Len(cs) |->
     << <<SpanStyled(format_width(IF i = 1 THEN group.group ELSE "", COL_WIDTH), "Blue")>> >>
       \o [k \in 1..Len(cs[i]) |-> help_entry_line(cs[i][k])]]

RECURSIVE help_columns(_)
help_columns(entries) ==
  IF Len(entries) = 0 THEN <<>>
  ELSE help_group_columns(entries[1]) \o help_columns(Tail(entries))

RECURSIVE help_row_spans(_, _)
help_row_spans(columns, i) ==
  IF Len(columns) = 0 THEN <<>>
  ELSE (IF i <= Len(columns[1]) THEN columns[1][i]
        ELSE <<SpanRaw(repeat(" ", COL_WIDTH))>>)
         \o help_row_spans(Tail(columns), i)

\* render_help_text: row i is a raw " " and then row i of every column, 26
\* blanks for a column that has no such row.  The number of rows is the
\* maximum of the column lengths (unwrapped: there is a column, every node
\* with children has a registration).
render_help_text(entries) ==
  LET columns == help_columns(entries)
      num_rows == CHOOSE n \in {Len(columns[c]) : c \in 1..Len(columns)} :
                    \A c \in 1..Len(columns) : Len(columns[c]) <= n
  IN [i \in 1..num_rows |-> <<SpanRaw(" ")>> \o help_row_spans(columns, i)]

\* IndexMap::insert: the value of a key already present is replaced where
\* it is, a new key goes to the end.
index_map_insert(entries, group, value) ==
  IF \E g \in 1..Len(entries) : entries[g].group = group
  THEN [g \in 1..Len(entries) |->
          IF entries[g].group = group THEN [entries[g] EXCEPT !.entries = value]
          ELSE entries[g]]
  ELSE Append(entries, [group |-> group, entries |-> value])

nav_help ==
  << <<"Tab ", "Toggle folding">>, <<"PgDn", "Move down page">>,
     <<"PgUp", "Move up page">>, <<"j/↓ ", "Move down">>, <<"k/↑ ", "Move up">>,
     <<"l/→ ", "Next sibling">>, <<"h/← ", "Prev sibling">>, <<"K", "Select parent">>,
     <<"@", "Select @ change">> >>

general_help ==
  << <<"Spc/Ctrl-r", "Refresh log tree">>, <<"Esc", "Clear app state">>,
     <<"L", "Set log revset">>, <<"I", "Toggle --ignore-immutable">>,
     <<"?", "Show help">>, <<"q", "Quit">> >>

\* CommandTree::get_help: the listing of the root with the navigation and
\* general keys behind it.
tree_get_help ==
  render_help_text(
    index_map_insert(
      index_map_insert(get_help_entries(help(<<>>)), "Navigation", nav_help),
      "General", general_help))

\* CommandTreeNodeChildren::get_help of every node with children, and
\* CommandTree::get_help at the empty chord.
HelpTexts ==
  [key_codes \in {c \in DOMAIN CommandTree : CommandTree[c].children} |->
     IF key_codes = <<>> THEN tree_get_help
     ELSE render_help_text(get_help_entries(help(key_codes)))]

\* The help text shown for a chord: show_help asks the tree (empty chord),
\* handle_command_key asks the children of the node it found.
get_help(key_codes) == HelpTexts[key_codes]

unbound_error_line(key_code) ==
  << SpanStyled(" Unbound suffix: ", "Red"), SpanRaw("'"),
     SpanStyled(key_code, "Green"), SpanRaw("'") >>

\* display_unbound_error_lines indexes the first line's first span: it
\* panics on a notice with no line or with an empty first line.
unbound_panics(info) ==
  IsSome(info) /\ (Len(Unwrap(info)) = 0 \/ Len(Unwrap(info)[1]) = 0)

DropLast(s, n) == SubSeq(s, 1, IF Len(s) >= n THEN Len(s) - n ELSE 0)

\* A variant of display_unbound_error_lines that keeps the unbound-suffix
\* line of a different key and starts a new one below it.
display_unbound_error_lines_keeps_other_keys(info, key_code) ==
  LET error_line == unbound_error_line(key_code) IN
  IF ~IsSome(info) THEN Some(<<error_line>>)
  ELSE LET lines == Unwrap(info)
           last_line == lines[Len(lines)]
           popped == IF Len(last_line) > 0 /\ last_line = error_line
                     THEN DropLast(lines, 2) ELSE lines
           blanked == IF Len(popped) > 0 THEN Append(popped, <<>>) ELSE popped
       IN Some(Append(blanked, error_line))

display_unbound_error_lines(info, key_code) ==
  LET error_line == unbound_error_line(key_code) IN
  IF ~IsSome(info) THEN Some(<<error_line>>)
  ELSE LET lines == Unwrap(info)
           add_blank_line == lines[1][1] /= error_line[1]
           last_line == lines[Len(lines)]
           popped == IF Len(last_line) > 0 /\ last_line[1] = error_line[1]
                     THEN DropLast(lines, 2) ELSE lines
           blanked == IF add_blank_line THEN Append(popped, <<>>) ELSE popped
       IN Some(Append(blanked, error_line))

----------------------------------------------------------------------------
(* Command descriptors (shell_out.rs) *)

JjCommandNew(args, global_args, interactive, return_output) ==
  [args |-> args, global_args |-> global_args, interactive |-> interactive,
   return_output |-> return_output, sync |-> TRUE]

\* A variant of _new_skip_sync that sets the sync flag.
JjCommandNewSkipSync_sets_sync(args, global_args, interactive, return_output) ==
  [args |-> args, global_args |-> global_args, interactive |-> interactive,
   return_output |-> return_output, sync |-> TRUE]

JjCommandNewSkipSync(args, global_args, interactive, return_output) ==
  [args |-> args, global_args |-> global_args, interactive |-> interactive,
   return_output |-> return_output, sync |-> FALSE]

\* An optional trailing argument: pushed when it is Some.
OptArg(maybe) == maybe

\* JjCommand::to_lines: the invocation line (its prompt glyph written ">")
\* and a blank line.
to_lines(cmd) ==
  << << SpanStyled(">", "Yellow"), SpanRaw(" jj "), SpanRaw(Join(cmd.args, " ")) >>,
     LineRaw("") >>

\* The JjCommand constructors; p holds the operands in parameter order.
JjCommandCtor(ctor, p, global_args) ==
  CASE ctor = "log" -> JjCommandNew(<<"log", "--revisions", p[1]>>, global_args, FALSE, "Stdout")
    [] ctor = "diff_summary" -> JjCommandNew(<<"diff", "--revisions", p[1], "--summary">>, global_args, FALSE, "Stdout")
    [] ctor = "diff_file" -> JjCommandNew(<<"diff", "--revisions", p[1], p[2]>>, global_args, FALSE, "Stdout")
    [] ctor = "diff_file_interactive" -> JjCommandNewSkipSync(<<"diff", "--revisions", p[1], p[2]>>, global_args, TRUE, "Stderr")
    [] ctor = "diff_from_to_interactive" -> JjCommandNewSkipSync(<<"diff", "--from", p[1], "--to", p[2]>>, global_args, TRUE, "Stderr")
    [] ctor = "describe" -> JjCommandNew(<<"describe", p[1]>>, global_args, TRUE, "Stderr")
    [] ctor = "duplicate" -> JjCommandNew(<<"duplicate", p[1]>>, global_args, FALSE, "Stderr")
    [] ctor = "duplicate_onto" -> JjCommandNew(<<"duplicate", p[1], "--onto", p[2]>>, global_args, FALSE, "Stderr")
    [] ctor = "duplicate_insert_after" -> JjCommandNew(<<"duplicate", p[1], "--insert-after", p[2]>>, global_args, FALSE, "Stderr")
    [] ctor = "duplicate_insert_before" -> JjCommandNew(<<"duplicate", p[1], "--insert-before", p[2]>>, global_args, FALSE, "Stderr")
    [] ctor = "new" -> JjCommandNew(<<"new", p[1]>>, global_args, FALSE, "Stderr")
    [] ctor = "parallelize" -> JjCommandNew(<<"parallelize", p[1]>>, global_args, FALSE, "Stderr")
    [] ctor = "prev" -> JjCommandNew(<<"prev">>, global_args, FALSE, "Stderr")
    [] ctor = "prev_offset" -> JjCommandNew(<<"prev", p[1]>>, global_args, FALSE, "Stderr")
    [] ctor = "prev_edit" -> JjCommandNew(<<"prev", "--edit">>, global_args, FALSE, "Stderr")
    [] ctor = "prev_edit_offset" -> JjCommandNew(<<"prev", "--edit", p[1]>>, global_args, FALSE, "Stderr")
    [] ctor = "prev_no_edit" -> JjCommandNew(<<"prev", "--no-edit">>, global_args, FALSE, "Stderr")
    [] ctor = "prev_no_edit_offset" -> JjCommandNew(<<"prev", "--no-edit", p[1]>>, global_args, FALSE, "Stderr")
    [] ctor = "prev_conflict" -> JjCommandNew(<<"prev", "--conflict">>, global_args, FALSE, "Stderr")
    [] ctor = "new_insert_after" -> JjCommandNew(<<"new", "--insert-after", p[1]>>, global_args, FALSE, "Stderr")
    [] ctor = "new_before" -> JjCommandNew(<<"new", "--no-edit", "--insert-before", p[1]>>, global_args, FALSE, "Stderr")
    [] ctor = "new_after_trunk" -> JjCommandNew(<<"new", "trunk()">>, global_args, FALSE, "Stderr")
    [] ctor = "next" -> JjCommandNew(<<"next">>, global_args, FALSE, "Stderr")
    [] ctor = "next_offset" -> JjCommandNew(<<"next", p[1]>>, global_args, FALSE, "Stderr")
    [] ctor = "next_edit" -> JjCommandNew(<<"next", "--edit">>, global_args, FALSE, "Stderr")
    [] ctor = "next_edit_offset" -> JjCommandNew(<<"next", "--edit", p[1]>>, global_args, FALSE, "Stderr")
    [] ctor = "next_no_edit" -> JjCommandNew(<<"next", "--no-edit">>, global_args, FALSE, "Stderr")
    [] ctor = "next_no_edit_offset" -> JjCommandNew(<<"next", "--no-edit", p[1]>>, global_args, FALSE, "Stderr")
    [] ctor = "next_conflict" -> JjCommandNew(<<"next", "--conflict">>, global_args, FALSE, "Stderr")
    [] ctor = "abandon" -> JjCommandNew(<<"abandon", p[1]>>, global_args, FALSE, "Stderr")
    [] ctor = "abandon_retain_bookmarks" -> JjCommandNew(<<"abandon", "--retain-bookmarks", p[1]>>, global_args, FALSE, "Stderr")
    [] ctor = "abandon_restore_descendants" -> JjCommandNew(<<"abandon", "--restore-descendants", p[1]>>, global_args, FALSE, "Stderr")
    [] ctor = "absorb" -> JjCommandNew(<<"absorb", "--from", p[1]>> \o OptArg(p[2]), global_args, FALSE, "Stderr")
    [] ctor = "absorb_into" -> JjCommandNew(<<"absorb", "--from", p[1], "--into", p[2]>> \o OptArg(p[3]), global_args, FALSE, "Stderr")
    [] ctor = "revert_onto" -> JjCommandNew(<<"revert", "-r", p[1], "--onto", p[2]>>, global_args, FALSE, "Stderr")
    [] ctor = "revert_insert_after" -> JjCommandNew(<<"revert", "-r", p[1], "--insert-after", p[2]>>, global_args, FALSE, "Stderr")
    [] ctor = "revert_insert_before" -> JjCommandNew(<<"revert", "-r", p[1], "--insert-before", p[2]>>, global_args, FALSE, "Stderr")
    [] ctor = "sign" -> JjCommandNew(<<"sign", "-r", p[1]>>, global_args, FALSE, "Stderr")
    [] ctor = "show" -> JjCommandNewSkipSync(<<"show", p[1]>>, global_args, TRUE, "Stderr")
    [] ctor = "status" -> JjCommandNewSkipSync(<<"status">>, global_args, TRUE, "Stderr")
    [] ctor = "unsign" -> JjCommandNew(<<"unsign", "-r", p[1]>>, global_args, FALSE, "Stderr")
    [] ctor = "simplify_parents" -> JjCommandNew(<<"simplify-parents", "-r", p[1]>>, global_args, FALSE, "Stderr")
    [] ctor = "simplify_parents_source" -> JjCommandNew(<<"simplify-parents", "-s", p[1]>>, global_args, FALSE, "Stderr")
    [] ctor = "undo" -> JjCommandNew(<<"undo">>, global_args, FALSE, "Stderr")
    [] ctor = "redo" -> JjCommandNew(<<"redo">>, global_args, FALSE, "Stderr")
    [] ctor = "commit" -> JjCommandNew(<<"commit">> \o OptArg(p[1]), global_args, TRUE, "Stderr")
    [] ctor = "rebase_onto_trunk" -> JjCommandNew(<<"rebase", "--source", p[1], "--onto", "trunk()">>, global_args, FALSE, "Stderr")
    [] ctor = "rebase_branch_onto_trunk" -> JjCommandNew(<<"rebase", "--branch", p[1], "--onto", "trunk()">>, global_args, FALSE, "Stderr")
    [] ctor = "rebase_onto_destination" -> JjCommandNew(<<"rebase", "--source", p[1], "--onto", p[2]>>, global_args, FALSE, "Stderr")
    [] ctor = "rebase_branch_onto_destination" -> JjCommandNew(<<"rebase", "--branch", p[1], "--onto", p[2]>>, global_args, FALSE, "Stderr")
    [] ctor = "rebase_onto_destination_no_descendants" -> JjCommandNew(<<"rebase", "--revisions", p[1], "--onto", p[2]>>, global_args, FALSE, "Stderr")
    [] ctor = "rebase_after_destination" -> JjCommandNew(<<"rebase", "--source", p[1], "--insert-after", p[2]>>, global_args, FALSE, "Stderr")
    [] ctor = "rebase_after_destination_no_descendants" -> JjCommandNew(<<"rebase", "--revisions", p[1], "--insert-after", p[2]>>, global_args, FALSE, "Stderr")
    [] ctor = "rebase_before_destination" -> JjCommandNew(<<"rebase", "--source", p[1], "--insert-before", p[2]>>, global_args, FALSE, "Stderr")
    [] ctor = "rebase_before_destination_no_descendants" -> JjCommandNew(<<"rebase", "--revisions", p[1], "--insert-before", p[2]>>, global_args, FALSE, "Stderr")
    [] ctor = "restore" -> JjCommandNew(<<"restore", "--changes-in", p[1]>> \o OptArg(p[2]), global_args, FALSE, "Stderr")
    [] ctor = "restore_from" -> JjCommandNew(<<"restore", "--from", p[1]>> \o OptArg(p[2]), global_args, FALSE, "Stderr")
    [] ctor = "restore_into" -> JjCommandNew(<<"restore", "--into", p[1]>> \o OptArg(p[2]), global_args, FALSE, "Stderr")
    [] ctor = "restore_restore_descendants" -> JjCommandNew(<<"restore", "--changes-in", p[1], "--restore-descendants">> \o OptArg(p[2]), global_args, FALSE, "Stderr")
    [] ctor = "restore_from_into" -> JjCommandNew(<<"restore", "--from", p[1], "--into", p[2]>> \o OptArg(p[3]), global_args, FALSE, "Stderr")
    [] ctor = "squash_noninteractive" -> JjCommandNew(<<"squash", "--revision", p[1]>> \o OptArg(p[2]), global_args, FALSE, "Stderr")
    [] ctor = "squash_interactive" -> JjCommandNew(<<"squash", "--revision", p[1]>> \o OptArg(p[2]), global_args, TRUE, "Stderr")
    [] ctor = "squash_into_interactive" -> JjCommandNew(<<"squash", "--from", p[1], "--into", p[2]>> \o OptArg(p[3]), global_args, TRUE, "Stderr")
    [] ctor = "edit" -> JjCommandNew(<<"edit", p[1]>>, global_args, FALSE, "Stderr")
    [] ctor = "evolog" -> JjCommandNewSkipSync(<<"evolog", "-r", p[1]>>, global_args, TRUE, "Stderr")
    [] ctor = "evolog_patch" -> JjCommandNewSkipSync(<<"evolog", "-r", p[1], "--patch">>, global_args, TRUE, "Stderr")
    [] ctor = "interdiff" -> JjCommandNewSkipSync(<<"interdiff", "--from", p[1], "--to", p[2]>> \o OptArg(p[3]), global_args, TRUE, "Stderr")
    [] ctor = "file_track" -> JjCommandNew(<<"file", "track", p[1]>>, global_args, FALSE, "Stderr")
    [] ctor = "file_untrack" -> JjCommandNew(<<"file", "untrack", p[1]>>, global_args, FALSE, "Stderr")
    [] ctor = "metaedit_update_change_id" -> JjCommandNew(<<"metaedit", "--update-change-id", p[1]>>, global_args, FALSE, "Stderr")
    [] ctor = "metaedit_update_author_timestamp" -> JjCommandNew(<<"metaedit", "--update-author-timestamp", p[1]>>, global_args, FALSE, "Stderr")
    [] ctor = "metaedit_update_author" -> JjCommandNew(<<"metaedit", "--update-author", p[1]>>, global_args, FALSE, "Stderr")
    [] ctor = "metaedit_set_author" -> JjCommandNew(<<"metaedit", "--author", p[2], p[1]>>, global_args, FALSE, "Stderr")
    [] ctor = "metaedit_set_author_timestamp" -> JjCommandNew(<<"metaedit", "--author-timestamp", p[2], p[1]>>, global_args, FALSE, "Stderr")
    [] ctor = "metaedit_force_rewrite" -> JjCommandNew(<<"metaedit", "--force-rewrite", p[1]>>, global_args, FALSE, "Stderr")
    [] ctor = "fetch" -> JjCommandNew(<<"git", "fetch">>, global_args, FALSE, "Stderr")
    [] ctor = "fetch_all_remotes" -> JjCommandNew(<<"git", "fetch", "--all-remotes">>, global_args, FALSE, "Stderr")
    [] ctor = "fetch_tracked" -> JjCommandNew(<<"git", "fetch", "--tracked">>, global_args, FALSE, "Stderr")
    [] ctor = "fetch_branch" -> JjCommandNew(<<"git", "fetch", "-b", p[1]>>, global_args, FALSE, "Stderr")
    [] ctor = "fetch_remote" -> JjCommandNew(<<"git", "fetch", "--remote", p[1]>>, global_args, FALSE, "Stderr")
    [] ctor = "push" -> JjCommandNew(<<"git", "push">>, global_args, FALSE, "Stderr")
    [] ctor = "push_all" -> JjCommandNew(<<"git", "push", "--all">>, global_args, FALSE, "Stderr")
    [] ctor = "push_revision" -> JjCommandNew(<<"git", "push", "-r", p[1]>>, global_args, FALSE, "Stderr")
    [] ctor = "push_tracked" -> JjCommandNew(<<"git", "push", "--tracked">>, global_args, FALSE, "Stderr")
    [] ctor = "push_deleted" -> JjCommandNew(<<"git", "push", "--deleted">>, global_args, FALSE, "Stderr")
    [] ctor = "push_change" -> JjCommandNew(<<"git", "push", "-c", p[1]>>, global_args, FALSE, "Stderr")
    [] ctor = "push_named" -> JjCommandNew(<<"git", "push", "--named", (p[1] \o "=" \o p[2])>>, global_args, FALSE, "Stderr")
    [] ctor = "push_bookmark" -> JjCommandNew(<<"git", "push", "-b", p[1]>>, global_args, FALSE, "Stderr")
    [] ctor = "bookmark_create" -> JjCommandNew(<<"bookmark", "create", "--revision", p[2], p[1]>>, global_args, FALSE, "Stderr")
    [] ctor = "bookmark_delete" -> JjCommandNew(<<"bookmark", "delete", p[1]>>, global_args, FALSE, "Stderr")
    [] ctor = "bookmark_forget" -> JjCommandNew(<<"bookmark", "forget", p[1]>>, global_args, FALSE, "Stderr")
    [] ctor = "bookmark_forget_include_remotes" -> JjCommandNew(<<"bookmark", "forget", "--include-remotes", p[1]>>, global_args, FALSE, "Stderr")
    [] ctor = "bookmark_move" -> JjCommandNew(<<"bookmark", "move", "--from", p[1], "--to", p[2]>>, global_args, FALSE, "Stderr")
    [] ctor = "bookmark_move_allow_backwards" -> JjCommandNew(<<"bookmark", "move", "--from", p[1], "--to", p[2], "--allow-backwards">>, global_args, FALSE, "Stderr")
    [] ctor = "bookmark_move_tug" -> JjCommandNew(<<"bookmark", "move", "--from", "heads(::@- & bookmarks())", "--to", p[1]>>, global_args, FALSE, "Stderr")
    [] ctor = "bookmark_rename" -> JjCommandNew(<<"bookmark", "rename", p[1], p[2]>>, global_args, FALSE, "Stderr")
    [] ctor = "bookmark_set" -> JjCommandNew(<<"bookmark", "set", p[1], "--revision", p[2]>>, global_args, FALSE, "Stderr")
    [] ctor = "bookmark_track" -> JjCommandNew(<<"bookmark", "track", p[1]>>, global_args, FALSE, "Stderr")
    [] ctor = "bookmark_untrack" -> JjCommandNew(<<"bookmark", "untrack", p[1]>>, global_args, FALSE, "Stderr")

----------------------------------------------------------------------------
(* The model's handlers (model.rs), as functions from a Model to the Model *)
(* they leave.  A Model is the record of the variables; its field err is   *)
(* set when the handler returns Err (propagated by `?` up to main), its    *)
(* field sync_called when the handler called Model::sync, and its field    *)
(* path names the point where a run, an editor call or a load returned.    *)

\* The most periods a "Refreshed" notice is followed up to.
MaxRefreshPeriods == 3

global_args(m) == [repository |-> "repo", ignore_immutable |-> m.ignore_immutable]

log_list_tree_positions(m) == flatten_log(m.jj_log)

get_selected_tree_position(m) == log_list_tree_positions(m)[m.selected + 1]

get_change_id(m, tree_pos) ==
  IF IsSome(get_tree_commit(m.jj_log, tree_pos))
  THEN Some(Unwrap(get_tree_commit(m.jj_log, tree_pos)).change_id)
  ELSE None

get_selected_change_id(m) == get_change_id(m, get_selected_tree_position(m))
\* A variant of get_saved_change_id that reads the current selection.
get_saved_change_id_reads_selection(m) == get_selected_change_id(m)
get_saved_change_id(m) == m.saved_change_id
get_selected_file_path(m) == get_tree_file_diff(m.jj_log, get_selected_tree_position(m))
get_saved_file_path(m) == m.saved_file_path

is_selected_working_copy(m) ==
  LET c == get_tree_commit(m.jj_log, get_selected_tree_position(m))
  IN IF IsSome(c) THEN Unwrap(c).current_working_copy ELSE FALSE

quit(m) == [m EXCEPT !.state = "Quit"]

toggle_current_fold(m) ==
  LET r == toggle_fold(m.jj_log, get_selected_tree_position(m))
  IN [m EXCEPT !.jj_log = r.log, !.selected = r.idx]

reset_log_list_selection(m) ==
  LET c == get_current_commit(m.jj_log)
      list_idx == IF IsSome(c) THEN flat_log_idx(m.jj_log, Unwrap(c)) ELSE 0
  IN toggle_current_fold([m EXCEPT !.selected = list_idx])

\* Model::sync; loaded is what load_log_tree gets from the external tool.
sync(m, loaded) ==
  IF ~loaded.ok THEN [m EXCEPT !.err = TRUE, !.sync_called = TRUE, !.path = "load"]
  ELSE reset_log_list_selection([m EXCEPT !.jj_log = loaded.log, !.sync_called = TRUE])

\* Variants of clear with one field forgotten: the saved change id, the
\* queue, the saved row.
clear_keeps_saved_change_id(m) ==
  [m EXCEPT !.info_list = None,
            !.saved_log_index = None,
            !.saved_file_path = None,
            !.command_keys = <<>>,
            !.queued_jj_commands = <<>>,
            !.accumulated_command_output = <<>>]

clear_keeps_queue(m) ==
  [m EXCEPT !.info_list = None,
            !.saved_log_index = None,
            !.saved_change_id = None,
            !.saved_file_path = None,
            !.command_keys = <<>>,
            !.accumulated_command_output = <<>>]

clear_keeps_saved_log_index(m) ==
  [m EXCEPT !.info_list = None,
            !.saved_change_id = None,
            !.saved_file_path = None,
            !.command_keys = <<>>,
            !.queued_jj_commands = <<>>,
            !.accumulated_command_output = <<>>]

\* A variant of clear that keeps the output accumulator.
clear_keeps_accumulated_output(m) ==
  [m EXCEPT !.info_list = None,
            !.saved_log_index = None,
            !.saved_change_id = None,
            !.saved_file_path = None,
            !.command_keys = <<>>,
            !.queued_jj_commands = <<>>]

clear(m) ==
  [m EXCEPT !.info_list = None,
            !.saved_log_index = None,
            !.saved_change_id = None,
            !.saved_file_path = None,
            !.command_keys = <<>>,
            !.queued_jj_commands = <<>>,
            !.accumulated_command_output = <<>>]

RefreshedText(periods) ==
  LET RECURSIVE Dots(_)
      Dots(n) == IF n = 0 THEN "" ELSE "." \o Dots(n - 1)
  IN TextFrom("Refreshed" \o Dots(periods))

\* The periods Model::refresh appends: three more than the notice shows if
\* the notice is a "Refreshed" one, none otherwise.
refresh_periods(m) ==
  IF \E n \in 0..MaxRefreshPeriods : m.info_list = Some(RefreshedText(n))
  THEN (CHOOSE n \in 0..MaxRefreshPeriods : m.info_list = Some(RefreshedText(n))) + 3
  ELSE 0

refresh(m, loaded) ==
  LET periods == refresh_periods(m)
      synced == sync(clear(m), loaded)
  IN IF synced.err THEN synced
     ELSE [synced EXCEPT !.info_list = Some(RefreshedText(periods))]

\* A variant of toggle_ignore_immutable that also flips the flag in the
\* descriptors already queued.
toggle_ignore_immutable_in_queue(m) ==
  [m EXCEPT !.ignore_immutable = ~m.ignore_immutable,
            !.queued_jj_commands =
               [i \in 1..Len(@) |->
                  [@[i] EXCEPT !.global_args.ignore_immutable = ~m.ignore_immutable]]]

toggle_ignore_immutable(m) == [m EXCEPT !.ignore_immutable = ~m.ignore_immutable]

\* A variant of select_next_node that also empties the chord.
select_next_node_clears_chord(m) ==
  IF m.selected < Len(log_list_tree_positions(m)) - 1
  THEN [m EXCEPT !.selected = m.selected + 1, !.command_keys = <<>>] ELSE m

select_next_node(m) ==
  IF m.selected < Len(log_list_tree_positions(m)) - 1
  THEN [m EXCEPT !.selected = m.selected + 1] ELSE m

select_prev_node(m) ==
  IF m.selected > 0 THEN [m EXCEPT !.selected = m.selected - 1] ELSE m

select_current_working_copy(m) ==
  LET c == get_current_commit(m.jj_log)
  IN IF IsSome(c) THEN [m EXCEPT !.selected = flat_log_idx(m.jj_log, Unwrap(c))] ELSE m

LOG_LIST_SCROLL_PADDING == 0

\* The row of the frame the list area begins at, below the header's two.
LOG_LIST_Y == 2

\* usize arithmetic: 64 bits in the program, 30 here, the same for every
\* length and row number that occurs.
WrapUsize(x) == x % (2 ^ 30)

select_parent_node(m) ==
  LET parent_pos == get_parent_tree_position(get_selected_tree_position(m))
  IN IF IsSome(parent_pos)
     THEN [m EXCEPT !.selected = node_flat_log_idx(m.jj_log, Unwrap(parent_pos))]
     ELSE m

\* select_next_sibling_node; positions are at most two levels deep here (a
\* revision, a file), so the recursion to the parent is written out and the
\* diff-hunk-line case does not arise.
select_next_sibling_node(m, tree_pos) ==
  LET idx == tree_pos[Len(tree_pos)]
      parent_pos == get_parent_tree_position(tree_pos)
      top(i) == LET sibling_idx == IF i + 1 < Len(m.jj_log) - 1 THEN i + 1
                                   ELSE Len(m.jj_log) - 1
                IN [m EXCEPT !.selected = flat_log_idx(m.jj_log, sibling_idx + 1)]
  IN IF IsSome(parent_pos)
     THEN IF idx = Len(children(m.jj_log, Unwrap(parent_pos))) - 1
          THEN top(Unwrap(parent_pos)[1])
          ELSE [m EXCEPT !.selected =
                  node_flat_log_idx(m.jj_log, Unwrap(parent_pos) \o <<idx + 1>>)]
     ELSE top(idx)

select_prev_sibling_node(m, tree_pos) ==
  LET idx == tree_pos[Len(tree_pos)]
      parent_pos == get_parent_tree_position(tree_pos)
  IN IF IsSome(parent_pos)
     THEN IF idx = 0
          THEN [m EXCEPT !.selected = node_flat_log_idx(m.jj_log, Unwrap(parent_pos))]
          ELSE [m EXCEPT !.selected =
                  node_flat_log_idx(m.jj_log, Unwrap(parent_pos) \o <<idx - 1>>)]
     ELSE LET sibling_idx == IF idx > 0 THEN idx - 1 ELSE 0
          IN [m EXCEPT !.selected = flat_log_idx(m.jj_log, sibling_idx + 1)]

\* line_dist_to_dest_node: the loop from current_node with lines_traversed
\* lines behind it; -1 stands for the panic of indexing log_list past its
\* end.
RECURSIVE line_dist_loop(_, _, _, _, _)
line_dist_loop(m, line_dist, current_node, lines_traversed, down) ==
  LET rows == Len(log_list_tree_positions(m))
      traversed == lines_traversed + lines_in_node(m.jj_log, current_node)
  IN IF current_node >= rows THEN -1
     ELSE IF \/ (IF down THEN current_node = rows - 1 ELSE current_node = 0)
             \/ traversed > line_dist
          THEN current_node
     ELSE line_dist_loop(m, line_dist,
                         IF down THEN current_node + 1 ELSE current_node - 1,
                         traversed, down)

line_dist_to_dest_node(m, line_dist, starting_node, down) ==
  line_dist_loop(m, line_dist, starting_node, 0, down)

\* scroll_lines; selected - offset panics in a build with overflow checks
\* and wraps in one without.
scroll_lines(m, num_lines, down) ==
  IF m.selected < m.offset /\ m.overflow_checks THEN [m EXCEPT !.panic = TRUE]
  ELSE
    LET selected_node_dist_from_offset == WrapUsize(m.selected - m.offset)
        target_offset == line_dist_to_dest_node(m, num_lines, m.offset, down)
        target_node == WrapUsize(target_offset + selected_node_dist_from_offset)
    IN IF target_offset = -1 THEN [m EXCEPT !.panic = TRUE]
       ELSE IF down /\ target_offset = Len(log_list_tree_positions(m)) - 1
            THEN [m EXCEPT !.selected = target_offset]
       ELSE IF ~down /\ target_offset = 0 /\ target_offset = m.offset
            THEN [m EXCEPT !.selected = 0, !.offset = target_offset]
       ELSE [m EXCEPT !.selected = target_node, !.offset = target_offset]

scroll_down_once(m) ==
  LET m1 == IF m.selected <= m.offset + LOG_LIST_SCROLL_PADDING
            THEN select_next_node(m) ELSE m
  IN [m1 EXCEPT !.offset = m.offset + 1]

\* scroll_up_once; height - 1 panics or wraps when the list area is empty.
scroll_up_once(m) ==
  IF m.offset = 0 THEN m
  ELSE IF m.log_list_layout = 0 /\ m.overflow_checks THEN [m EXCEPT !.panic = TRUE]
  ELSE
    LET last_node_visible ==
          line_dist_to_dest_node(m, WrapUsize(m.log_list_layout - 1), m.offset, TRUE)
        m1 == IF m.selected >= last_node_visible - 1 - LOG_LIST_SCROLL_PADDING
              THEN select_prev_node(m) ELSE m
    IN IF last_node_visible = -1 THEN [m EXCEPT !.panic = TRUE]
       ELSE [m1 EXCEPT !.offset = m.offset - 1]

\* handle_mouse_click; the list area spans the frame's columns, so a click
\* is outside it only by its row.
handle_mouse_click(m, row) ==
  IF row < LOG_LIST_Y \/ row >= LOG_LIST_Y + m.log_list_layout THEN m
  ELSE LET target_node == line_dist_to_dest_node(m, row - LOG_LIST_Y, m.offset, TRUE)
       IN IF target_node = -1 THEN [m EXCEPT !.panic = TRUE]
          ELSE [m EXCEPT !.selected = target_node]

cancelled(m) == [m EXCEPT !.info_list = Some(TextFrom("Cancelled"))]

\* A variant of invalid_selection that shows the notice of cancelled.
invalid_selection_says_cancelled(m) == [m EXCEPT !.info_list = Some(TextFrom("Cancelled"))]

invalid_selection(m) == [m EXCEPT !.info_list = Some(TextFrom("Invalid selection"))]

display_error_lines(m, err_text) == [m EXCEPT !.info_list = Some(err_text)]

\* A variant of set_revset that keeps the new revset when the load fails.
set_revset_keeps_new_revset(m, input, loaded) ==
  IF ~IsSome(input) THEN cancelled(m)
  ELSE LET synced == sync([m EXCEPT !.revset = Unwrap(input)], loaded)
       IN IF synced.err
          THEN display_error_lines([synced EXCEPT !.err = FALSE], TextFrom("load failed"))
          ELSE [synced EXCEPT !.info_list =
                  Some(TextFrom("Revset set to '" \o synced.revset \o "'"))]

\* Model::set_revset; input is what the editor returned.
set_revset(m, input, loaded) ==
  IF ~IsSome(input) THEN cancelled(m)
  ELSE LET old_revset == m.revset
           synced == sync([m EXCEPT !.revset = Unwrap(input)], loaded)
       IN IF synced.err
          THEN [display_error_lines([synced EXCEPT !.err = FALSE], TextFrom("load failed"))
                  EXCEPT !.revset = old_revset]
          ELSE [synced EXCEPT !.info_list =
                  Some(TextFrom("Revset set to '" \o synced.revset \o "'"))]

show_help(m) == [m EXCEPT !.info_list = Some(get_help(<<>>))]

\* Vec::push and Vec::pop on the chord.
push(v, x) == Append(v, x)
\* A variant of pop that drops every element.
pop_all(v) == <<>>
pop(v) == SubSeq(v, 1, Len(v) - 1)

\* A variant of handle_command_key that empties the chord whenever the node
\* has an action, children or not.
handle_command_key_always_clears(m, key_code) ==
  LET pushed == [m EXCEPT !.command_keys = push(@, key_code)]
      found == get_node(pushed.command_keys)
  IN IF ~IsSome(found)
     THEN LET popped == [pushed EXCEPT !.command_keys = pop(@)] IN
          IF unbound_panics(popped.info_list)
          THEN [m |-> popped, msg |-> None, panic |-> TRUE]
          ELSE [m |-> [popped EXCEPT !.info_list =
                         display_unbound_error_lines(popped.info_list, key_code)],
                msg |-> None, panic |-> FALSE]
     ELSE LET node == Unwrap(found)
              helped == IF node.children
                        THEN [pushed EXCEPT !.info_list = Some(get_help(pushed.command_keys))]
                        ELSE pushed
          IN IF IsSome(node.action)
             THEN [m |-> [helped EXCEPT !.command_keys = <<>>],
                   msg |-> node.action, panic |-> FALSE]
             ELSE [m |-> helped, msg |-> None, panic |-> FALSE]

\* A variant of handle_command_key that empties the chord on an unbound key.
handle_command_key_clears_on_unbound(m, key_code) ==
  LET pushed == [m EXCEPT !.command_keys = push(@, key_code)]
      found == get_node(pushed.command_keys)
  IN IF ~IsSome(found)
     THEN LET popped == [pushed EXCEPT !.command_keys = <<>>] IN
          IF unbound_panics(popped.info_list)
          THEN [m |-> popped, msg |-> None, panic |-> TRUE]
          ELSE [m |-> [popped EXCEPT !.info_list =
                         display_unbound_error_lines(popped.info_list, key_code)],
                msg |-> None, panic |-> FALSE]
     ELSE LET node == Unwrap(found)
              helped == IF node.children
                        THEN [pushed EXCEPT !.info_list = Some(get_help(pushed.command_keys))]
                        ELSE pushed
          IN IF IsSome(node.action)
             THEN [m |-> (IF ~node.children THEN [helped EXCEPT !.command_keys = <<>>]
                          ELSE helped),
                   msg |-> node.action, panic |-> FALSE]
             ELSE [m |-> helped, msg |-> None, panic |-> FALSE]

\* A variant of handle_command_key that keeps the chord at a node that has
\* an action and no children.
handle_command_key_keeps_leaf(m, key_code) ==
  LET pushed == [m EXCEPT !.command_keys = push(@, key_code)]
      found == get_node(pushed.command_keys)
  IN IF ~IsSome(found)
     THEN LET popped == [pushed EXCEPT !.command_keys = pop(@)] IN
          IF unbound_panics(popped.info_list)
          THEN [m |-> popped, msg |-> None, panic |-> TRUE]
          ELSE [m |-> [popped EXCEPT !.info_list =
                         display_unbound_error_lines(popped.info_list, key_code)],
                msg |-> None, panic |-> FALSE]
     ELSE LET node == Unwrap(found)
              helped == IF node.children
                        THEN [pushed EXCEPT !.info_list = Some(get_help(pushed.command_keys))]
                        ELSE pushed
          IN IF IsSome(node.action)
             THEN [m |-> helped, msg |-> node.action, panic |-> FALSE]
             ELSE [m |-> helped, msg |-> None, panic |-> FALSE]

\* Model::handle_command_key: the Model it leaves and the Message it returns;
\* panic is set when display_unbound_error_lines panics.
handle_command_key(m, key_code) ==
  LET pushed == [m EXCEPT !.command_keys = push(@, key_code)]
      found == get_node(pushed.command_keys)
  IN IF ~IsSome(found)
     THEN LET popped == [pushed EXCEPT !.command_keys = pop(@)] IN
          IF unbound_panics(popped.info_list)
          THEN [m |-> popped, msg |-> None, panic |-> TRUE]
          ELSE [m |-> [popped EXCEPT !.info_list =
                         display_unbound_error_lines(popped.info_list, key_code)],
                msg |-> None, panic |-> FALSE]
     ELSE LET node == Unwrap(found)
              helped == IF node.children
                        THEN [pushed EXCEPT !.info_list = Some(get_help(pushed.command_keys))]
                        ELSE pushed
          IN IF IsSome(node.action)
             THEN [m |-> (IF ~node.children THEN [helped EXCEPT !.command_keys = <<>>]
                          ELSE helped),
                   msg |-> node.action, panic |-> FALSE]
             ELSE [m |-> helped, msg |-> None, panic |-> FALSE]

\* A variant of save_selection that does not store the file path.
save_selection_drops_file_path(m) ==
  IF ~IsSome(get_selected_change_id(m)) THEN invalid_selection(clear(m))
  ELSE [m EXCEPT !.saved_change_id = get_selected_change_id(m),
                 !.saved_file_path = None,
                 !.saved_log_index = Some(m.selected)]

\* A variant of save_selection that leaves a register that is set as it is.
save_selection_keeps_register(m) ==
  IF ~IsSome(get_selected_change_id(m)) THEN invalid_selection(clear(m))
  ELSE IF IsSome(m.saved_change_id) THEN m
  ELSE [m EXCEPT !.saved_change_id = get_selected_change_id(m),
                 !.saved_file_path = get_selected_file_path(m),
                 !.saved_log_index = Some(m.selected)]

save_selection(m) ==
  IF ~IsSome(get_selected_change_id(m)) THEN invalid_selection(clear(m))
  ELSE [m EXCEPT !.saved_change_id = get_selected_change_id(m),
                 !.saved_file_path = get_selected_file_path(m),
                 !.saved_log_index = Some(m.selected)]

\* A variant of update_info_list_for_queue without the Running... marker.
update_info_list_for_queue_without_marker(m) ==
  LET lines == m.accumulated_command_output
                 \o (IF Len(m.queued_jj_commands) > 0
                     THEN to_lines(m.queued_jj_commands[1])
                     ELSE <<>>)
  IN [m EXCEPT !.info_list = Some(lines)]

update_info_list_for_queue(m) ==
  LET lines == m.accumulated_command_output
                 \o (IF Len(m.queued_jj_commands) > 0
                     THEN to_lines(m.queued_jj_commands[1]) \o <<LineRaw("Running...")>>
                     ELSE <<>>)
  IN [m EXCEPT !.info_list = Some(lines)]

\* A variant of queue_jj_commands that keeps the accumulated output.
queue_jj_commands_keeps_output(m, cmds) ==
  update_info_list_for_queue(
    [m EXCEPT !.queued_jj_commands = cmds,
              !.batch = cmds,
              !.ran = <<>>,
              !.outs = <<>>])

queue_jj_commands(m, cmds) ==
  update_info_list_for_queue(
    [m EXCEPT !.accumulated_command_output = <<>>,
              !.queued_jj_commands = cmds,
              !.batch = cmds,
              !.ran = <<>>,
              !.outs = <<>>])

queue_jj_command(m, cmd) == queue_jj_commands(m, <<cmd>>)

----------------------------------------------------------------------------
(* The jj_* handlers (model.rs 493-1542).  All but a few follow one shape: *)
(* read the operands in order, leave with invalid_selection or cancelled   *)
(* at the first one missing, else build one descriptor and queue it.       *)
(* H records that shape: the operand reads in source order, the            *)
(* constructor called, and what is passed to it.                           *)

H(steps, ctor, operands) == [steps |-> steps, ctor |-> ctor, operands |-> operands]

Handler(msg) ==
  CASE msg = "Abandon" -> H(<<"selected">>, "abandon", <<"selected">>)
    [] msg = "AbandonRestoreDescendants" -> H(<<"selected">>, "abandon_restore_descendants", <<"selected">>)
    [] msg = "AbandonRetainBookmarks" -> H(<<"selected">>, "abandon_retain_bookmarks", <<"selected">>)
    [] msg = "Absorb" -> H(<<"selected">>, "absorb", <<"selected", "maybe_selected_file">>)
    [] msg = "AbsorbInto" -> H(<<"saved", "selected">>, "absorb_into", <<"saved", "selected", "maybe_saved_file">>)
    [] msg = "BookmarkCreate" -> H(<<"selected", "input1">>, "bookmark_create", <<"input1", "selected">>)
    [] msg = "BookmarkDelete" -> H(<<"input1">>, "bookmark_delete", <<"input1">>)
    [] msg = "BookmarkForget" -> H(<<"input1">>, "bookmark_forget", <<"input1">>)
    [] msg = "BookmarkForgetIncludeRemotes" -> H(<<"input1">>, "bookmark_forget_include_remotes", <<"input1">>)
    [] msg = "BookmarkMove" -> H(<<"saved", "selected">>, "bookmark_move", <<"saved", "selected">>)
    [] msg = "BookmarkMoveAllowBackwards" -> H(<<"saved", "selected">>, "bookmark_move_allow_backwards", <<"saved", "selected">>)
    [] msg = "BookmarkMoveTug" -> H(<<"selected">>, "bookmark_move_tug", <<"selected">>)
    [] msg = "BookmarkRename" -> H(<<"input1", "input2">>, "bookmark_rename", <<"input1", "input2">>)
    [] msg = "BookmarkSet" -> H(<<"selected", "input1">>, "bookmark_set", <<"input1", "selected">>)
    [] msg = "BookmarkTrack" -> H(<<"input1">>, "bookmark_track", <<"input1">>)
    [] msg = "BookmarkUntrack" -> H(<<"input1">>, "bookmark_untrack", <<"input1">>)
    [] msg = "Commit" -> H(<<>>, "commit", <<"maybe_selected_file">>)
    [] msg = "Describe" -> H(<<"selected">>, "describe", <<"selected">>)
    [] msg = "Duplicate" -> H(<<"selected">>, "duplicate", <<"selected">>)
    [] msg = "DuplicateInsertAfter" -> H(<<"saved", "selected">>, "duplicate_insert_after", <<"saved", "selected">>)
    [] msg = "DuplicateInsertBefore" -> H(<<"saved", "selected">>, "duplicate_insert_before", <<"saved", "selected">>)
    [] msg = "DuplicateOnto" -> H(<<"saved", "selected">>, "duplicate_onto", <<"saved", "selected">>)
    [] msg = "Edit" -> H(<<"selected">>, "edit", <<"selected">>)
    [] msg = "Evolog" -> H(<<"selected">>, "evolog", <<"selected">>)
    [] msg = "EvologPatch" -> H(<<"selected">>, "evolog_patch", <<"selected">>)
    [] msg = "FileTrack" -> H(<<"input1">>, "file_track", <<"input1">>)
    [] msg = "FileUntrack" -> H(<<"selected_file", "working_copy">>, "file_untrack", <<"selected_file">>)
    [] msg = "GitFetch" -> H(<<>>, "fetch", <<>>)
    [] msg = "GitFetchAllRemotes" -> H(<<>>, "fetch_all_remotes", <<>>)
    [] msg = "GitFetchBranch" -> H(<<"input1">>, "fetch_branch", <<"input1">>)
    [] msg = "GitFetchRemote" -> H(<<"input1">>, "fetch_remote", <<"input1">>)
    [] msg = "GitFetchTracked" -> H(<<>>, "fetch_tracked", <<>>)
    [] msg = "GitPush" -> H(<<>>, "push", <<>>)
    [] msg = "GitPushAll" -> H(<<>>, "push_all", <<>>)
    [] msg = "GitPushBookmark" -> H(<<"input1">>, "push_bookmark", <<"input1">>)
    [] msg = "GitPushChange" -> H(<<"selected">>, "push_change", <<"selected">>)
    [] msg = "GitPushDeleted" -> H(<<>>, "push_deleted", <<>>)
    [] msg = "GitPushNamed" -> H(<<"selected", "input1">>, "push_named", <<"input1", "selected">>)
    [] msg = "GitPushRevision" -> H(<<"selected">>, "push_revision", <<"selected">>)
    [] msg = "GitPushTracked" -> H(<<>>, "push_tracked", <<>>)
    [] msg = "InterdiffFromSelection" -> H(<<"selected">>, "interdiff", <<"selected", "@", "maybe_selected_file">>)
    [] msg = "InterdiffFromSelectionToDestination" -> H(<<"saved", "selected">>, "interdiff", <<"saved", "selected", "maybe_saved_file">>)
    [] msg = "InterdiffToSelection" -> H(<<"selected">>, "interdiff", <<"@", "selected", "maybe_selected_file">>)
    [] msg = "MetaeditForceRewrite" -> H(<<"selected">>, "metaedit_force_rewrite", <<"selected">>)
    [] msg = "MetaeditSetAuthor" -> H(<<"selected", "input1">>, "metaedit_set_author", <<"selected", "input1">>)
    [] msg = "MetaeditSetAuthorTimestamp" -> H(<<"selected", "input1">>, "metaedit_set_author_timestamp", <<"selected", "input1">>)
    [] msg = "MetaeditUpdateAuthor" -> H(<<"selected">>, "metaedit_update_author", <<"selected">>)
    [] msg = "MetaeditUpdateAuthorTimestamp" -> H(<<"selected">>, "metaedit_update_author_timestamp", <<"selected">>)
    [] msg = "MetaeditUpdateChangeId" -> H(<<"selected">>, "metaedit_update_change_id", <<"selected">>)
    [] msg = "Next" -> H(<<>>, "next", <<>>)
    [] msg = "NextConflict" -> H(<<>>, "next_conflict", <<>>)
    [] msg = "NextEdit" -> H(<<>>, "next_edit", <<>>)
    [] msg = "NextEditOffset" -> H(<<"input1">>, "next_edit_offset", <<"input1">>)
    [] msg = "NextNoEdit" -> H(<<>>, "next_no_edit", <<>>)
    [] msg = "NextNoEditOffset" -> H(<<"input1">>, "next_no_edit_offset", <<"input1">>)
    [] msg = "NextOffset" -> H(<<"input1">>, "next_offset", <<"input1">>)
    [] msg = "New" -> H(<<"selected">>, "new", <<"selected">>)
    [] msg = "NewAfterTrunk" -> H(<<>>, "new_after_trunk", <<>>)
    [] msg = "NewBefore" -> H(<<"selected">>, "new_before", <<"selected">>)
    [] msg = "NewInsertAfter" -> H(<<"selected">>, "new_insert_after", <<"selected">>)
    [] msg = "Parallelize" -> H(<<"selected">>, "parallelize", <<"parents_range">>)
    [] msg = "ParallelizeRange" -> H(<<"saved", "selected">>, "parallelize", <<"range">>)
    [] msg = "ParallelizeRevset" -> H(<<"input1">>, "parallelize", <<"input1">>)
    [] msg = "Prev" -> H(<<>>, "prev", <<>>)
    [] msg = "PrevConflict" -> H(<<>>, "prev_conflict", <<>>)
    [] msg = "PrevEdit" -> H(<<>>, "prev_edit", <<>>)
    [] msg = "PrevEditOffset" -> H(<<"input1">>, "prev_edit_offset", <<"input1">>)
    [] msg = "PrevNoEdit" -> H(<<>>, "prev_no_edit", <<>>)
    [] msg = "PrevNoEditOffset" -> H(<<"input1">>, "prev_no_edit_offset", <<"input1">>)
    [] msg = "PrevOffset" -> H(<<"input1">>, "prev_offset", <<"input1">>)
    [] msg = "RebaseAfterDestination" -> H(<<"saved", "selected">>, "rebase_after_destination", <<"saved", "selected">>)
    [] msg = "RebaseAfterDestinationNoDescendants" -> H(<<"saved", "selected">>, "rebase_after_destination_no_descendants", <<"saved", "selected">>)
    [] msg = "RebaseBeforeDestination" -> H(<<"saved", "selected">>, "rebase_before_destination", <<"saved", "selected">>)
    [] msg = "RebaseBeforeDestinationNoDescendants" -> H(<<"saved", "selected">>, "rebase_before_destination_no_descendants", <<"saved", "selected">>)
    [] msg = "RebaseBranchOntoDestination" -> H(<<"saved", "selected">>, "rebase_branch_onto_destination", <<"saved", "selected">>)
    [] msg = "RebaseBranchOntoTrunk" -> H(<<"selected">>, "rebase_branch_onto_trunk", <<"selected">>)
    [] msg = "RebaseOntoDestination" -> H(<<"saved", "selected">>, "rebase_onto_destination", <<"saved", "selected">>)
    [] msg = "RebaseOntoDestinationNoDescendants" -> H(<<"saved", "selected">>, "rebase_onto_destination_no_descendants", <<"saved", "selected">>)
    [] msg = "RebaseOntoTrunk" -> H(<<"selected">>, "rebase_onto_trunk", <<"selected">>)
    [] msg = "Redo" -> H(<<>>, "redo", <<>>)
    [] msg = "Restore" -> H(<<"selected">>, "restore", <<"selected", "maybe_selected_file">>)
    [] msg = "Revert" -> H(<<"selected">>, "revert_onto", <<"selected", "@">>)
    [] msg = "RevertInsertAfter" -> H(<<"saved", "selected">>, "revert_insert_after", <<"saved", "selected">>)
    [] msg = "RevertInsertBefore" -> H(<<"saved", "selected">>, "revert_insert_before", <<"saved", "selected">>)
    [] msg = "RevertOntoDestination" -> H(<<"saved", "selected">>, "revert_onto", <<"saved", "selected">>)
    [] msg = "RestoreFrom" -> H(<<"selected">>, "restore_from", <<"selected", "maybe_selected_file">>)
    [] msg = "RestoreFromInto" -> H(<<"saved", "selected">>, "restore_from_into", <<"saved", "selected", "maybe_saved_file">>)
    [] msg = "RestoreInto" -> H(<<"selected">>, "restore_into", <<"selected", "maybe_selected_file">>)
    [] msg = "RestoreRestoreDescendants" -> H(<<"selected">>, "restore_restore_descendants", <<"selected", "maybe_selected_file">>)
    [] msg = "Sign" -> H(<<"selected">>, "sign", <<"selected">>)
    [] msg = "SignRange" -> H(<<"saved", "selected">>, "sign", <<"range">>)
    [] msg = "SimplifyParents" -> H(<<"selected">>, "simplify_parents", <<"selected">>)
    [] msg = "SimplifyParentsSource" -> H(<<"selected">>, "simplify_parents_source", <<"selected">>)
    [] msg = "SquashInto" -> H(<<"saved", "selected">>, "squash_into_interactive", <<"saved", "selected", "maybe_saved_file">>)
    [] msg = "Status" -> H(<<>>, "status", <<>>)
    [] msg = "Undo" -> H(<<>>, "undo", <<>>)
    [] msg = "Unsign" -> H(<<"selected">>, "unsign", <<"selected">>)
    [] msg = "UnsignRange" -> H(<<"saved", "selected">>, "unsign", <<"range">>)
    [] msg = "ViewFromSelection" -> H(<<"selected">>, "diff_from_to_interactive", <<"selected", "@">>)
    [] msg = "ViewFromSelectionToDestination" -> H(<<"saved", "selected">>, "diff_from_to_interactive", <<"saved", "selected">>)
    [] msg = "ViewToSelection" -> H(<<"selected">>, "diff_from_to_interactive", <<"@", "selected">>)

\* terminal::relinquish_terminal and terminal::takeover_terminal: who owns
\* the terminal after each.  Their own failures are left out.
relinquish_terminal(m) == [m EXCEPT !.owns_terminal = FALSE]
takeover_terminal(m) == [m EXCEPT !.owns_terminal = TRUE]

\* What get_input_from_editor returned: Err, Ok(None) or Ok(Some(text)).  An
\* Err leaves at the temp file, at the spawn of the editor, at its non-zero
\* exit status, or at the read of the file.
EditorErr(at) == [ok |-> FALSE, value |-> None, at |-> at]
EditorNone == [ok |-> TRUE, value |-> None, at |-> "empty"]
EditorSome(text) == [ok |-> TRUE, value |-> Some(text), at |-> "text"]
EditorResults ==
  {EditorErr("tempfile"), EditorErr("spawn"), EditorErr("status"), EditorErr("read"),
   EditorNone, EditorSome("name")}

\* get_input_from_editor: what it does to the terminal on the way to the
\* answer it returns; path records where it returned.
get_input_from_editor(m, input) ==
  IF input.at = "tempfile" THEN [m EXCEPT !.path = input.at]
  ELSE LET relinquished == relinquish_terminal(m) IN
       IF input.at = "spawn" THEN [relinquished EXCEPT !.path = input.at]
       ELSE [takeover_terminal(relinquished) EXCEPT !.path = input.at]

\* How far the operand reads of a handler get.
RECURSIVE StepsOutcome(_, _, _, _)
StepsOutcome(m, steps, i, inputs) ==
  IF i > Len(steps) THEN "build"
  ELSE LET s == steps[i] IN
       IF s = "saved" /\ ~IsSome(get_saved_change_id(m)) THEN "invalid_selection"
       ELSE IF s = "selected" /\ ~IsSome(get_selected_change_id(m)) THEN "invalid_selection"
       ELSE IF s = "selected_file" /\ ~IsSome(get_selected_file_path(m)) THEN "invalid_selection"
       ELSE IF s = "working_copy" /\ ~is_selected_working_copy(m) THEN "invalid_selection"
       ELSE IF s = "input1" /\ ~inputs[1].ok THEN "err"
       ELSE IF s = "input1" /\ ~IsSome(inputs[1].value) THEN "cancelled"
       ELSE IF s = "input2" /\ ~inputs[2].ok THEN "err"
       ELSE IF s = "input2" /\ ~IsSome(inputs[2].value) THEN "cancelled"
       ELSE StepsOutcome(m, steps, i + 1, inputs)

\* The editor calls made by the operand reads of a handler, up to the read
\* it leaves at.
RECURSIVE EditorCalls(_, _, _, _)
EditorCalls(m, steps, i, inputs) ==
  IF i > Len(steps) THEN m
  ELSE LET after == IF steps[i] = "input1" THEN get_input_from_editor(m, inputs[1])
                    ELSE IF steps[i] = "input2" THEN get_input_from_editor(m, inputs[2])
                    ELSE m
       IN IF StepsOutcome(m, <<steps[i]>>, 1, inputs) /= "build" THEN after
          ELSE EditorCalls(after, steps, i + 1, inputs)

Operand(m, tok, inputs) ==
  CASE tok = "saved" -> Unwrap(get_saved_change_id(m))
    [] tok = "selected" -> Unwrap(get_selected_change_id(m))
    [] tok = "maybe_saved_file" -> get_saved_file_path(m)
    [] tok = "maybe_selected_file" -> get_selected_file_path(m)
    [] tok = "selected_file" -> Unwrap(get_selected_file_path(m))
    [] tok = "input1" -> Unwrap(inputs[1].value)
    [] tok = "input2" -> Unwrap(inputs[2].value)
    [] tok = "@" -> "@"
    [] tok = "range" ->
         Unwrap(get_saved_change_id(m)) \o "::" \o Unwrap(get_selected_change_id(m))
    [] tok = "parents_range" ->
         Unwrap(get_selected_change_id(m)) \o "-::" \o Unwrap(get_selected_change_id(m))

\* A variant of RunHandler whose two-step handlers build a descriptor that
\* skips the resync.
RunHandler_two_step_skips_sync(m0, h, inputs) ==
  LET outcome == StepsOutcome(m0, h.steps, 1, inputs)
      m == EditorCalls(m0, h.steps, 1, inputs)
  IN
  CASE outcome = "invalid_selection" -> invalid_selection(m)
    [] outcome = "cancelled" -> cancelled(m)
    [] outcome = "err" -> [m EXCEPT !.err = TRUE]
    [] outcome = "build" ->
         queue_jj_command(m,
           [JjCommandCtor(h.ctor,
                          [k \in 1..Len(h.operands) |-> Operand(m, h.operands[k], inputs)],
                          global_args(m))
              EXCEPT !.sync = @ /\ ~(Len(h.steps) > 0 /\ h.steps[1] = "saved")])

RunHandler(m0, h, inputs) ==
  LET outcome == StepsOutcome(m0, h.steps, 1, inputs)
      m == EditorCalls(m0, h.steps, 1, inputs)
  IN
  CASE outcome = "invalid_selection" -> invalid_selection(m)
    [] outcome = "cancelled" -> cancelled(m)
    [] outcome = "err" -> [m EXCEPT !.err = TRUE]
    [] outcome = "build" ->
         queue_jj_command(m,
           JjCommandCtor(h.ctor,
                         [k \in 1..Len(h.operands) |-> Operand(m, h.operands[k], inputs)],
                         global_args(m)))

jj_new_after_trunk_sync(m) ==
  LET fetch_cmd == JjCommandCtor("fetch", <<>>, global_args(m))
      new_cmd == JjCommandCtor("new_after_trunk", <<>>, global_args(m))
  IN queue_jj_commands(m, <<fetch_cmd, new_cmd>>)

\* A variant of jj_squash that is interactive whatever the description.
jj_squash_always_interactive(m) ==
  LET commit == get_tree_commit(m.jj_log, get_selected_tree_position(m)) IN
  IF ~IsSome(commit) THEN invalid_selection(m)
  ELSE queue_jj_command(m,
         JjCommandCtor("squash_interactive",
                       <<Unwrap(commit).change_id, get_selected_file_path(m)>>,
                       global_args(m)))

jj_squash(m) ==
  LET commit == get_tree_commit(m.jj_log, get_selected_tree_position(m)) IN
  IF ~IsSome(commit) THEN invalid_selection(m)
  ELSE LET maybe_file_path == get_selected_file_path(m)
           ctor == IF ~IsSome(Unwrap(commit).description_first_line)
                   THEN "squash_noninteractive" ELSE "squash_interactive"
       IN queue_jj_command(m,
            JjCommandCtor(ctor, <<Unwrap(commit).change_id, maybe_file_path>>, global_args(m)))

jj_view(m) ==
  IF ~IsSome(get_selected_change_id(m)) THEN invalid_selection(m)
  ELSE LET change_id == Unwrap(get_selected_change_id(m)) IN
       IF IsSome(get_selected_file_path(m))
       THEN queue_jj_command(m,
              JjCommandCtor("diff_file_interactive",
                            <<change_id, Unwrap(get_selected_file_path(m))>>, global_args(m)))
       ELSE queue_jj_command(m, JjCommandCtor("show", <<change_id>>, global_args(m)))

\* update::handle_msg: the Model the match arm of msg leaves.  inputs are the
\* editor's answers and loaded the external tool's answer to a load, for the
\* arms that ask for them.
handle_msg(m, msg, inputs, loaded) ==
  CASE msg = "Refresh" -> refresh(m, loaded)
    [] msg = "Clear" -> clear(m)
    [] msg = "ToggleIgnoreImmutable" -> toggle_ignore_immutable(m)
    [] msg = "SetRevset" ->
         IF ~inputs[1].ok THEN [get_input_from_editor(m, inputs[1]) EXCEPT !.err = TRUE]
         ELSE set_revset(get_input_from_editor(m, inputs[1]), inputs[1].value, loaded)
    [] msg = "ShowHelp" -> show_help(m)
    [] msg = "Quit" -> quit(m)
    [] msg = "SelectNextNode" -> select_next_node(m)
    [] msg = "SelectPrevNode" -> select_prev_node(m)
    [] msg = "SelectCurrentWorkingCopy" -> select_current_working_copy(m)
    [] msg = "ToggleLogListFold" -> toggle_current_fold(m)
    [] msg = "ScrollDownPage" -> scroll_lines(m, m.log_list_layout, TRUE)
    [] msg = "ScrollUpPage" -> scroll_lines(m, m.log_list_layout, FALSE)
    [] msg = "SelectNextSiblingNode" ->
         select_next_sibling_node(m, get_selected_tree_position(m))
    [] msg = "SelectPrevSiblingNode" ->
         select_prev_sibling_node(m, get_selected_tree_position(m))
    [] msg = "SelectParentNode" -> select_parent_node(m)
    [] msg = "ScrollDown" -> scroll_down_once(m)
    [] msg = "ScrollUp" -> scroll_up_once(m)
    [] msg = "LeftMouseClick" -> handle_mouse_click(m, m.row)
    [] msg = "RightMouseClick" ->
         IF handle_mouse_click(m, m.row).panic THEN handle_mouse_click(m, m.row)
         ELSE toggle_current_fold(handle_mouse_click(m, m.row))
    [] msg = "SaveSelection" -> save_selection(m)
    [] msg = "NewAfterTrunkSync" -> jj_new_after_trunk_sync(m)
    [] msg = "Squash" -> jj_squash(m)
    [] msg = "View" -> jj_view(m)
    [] OTHER -> RunHandler(m, Handler(msg), inputs)

\* What JjCommand::run returned, with the text its output converts to:
\* Ok(output), Err(Failed{stderr}) or Err(Other); bad_text is set when
\* into_text() fails on the output.
RunOk(lines) == [kind |-> "Ok", lines |-> lines, bad_text |-> FALSE, at |-> "success"]
RunOkBadText == [kind |-> "Ok", lines |-> <<>>, bad_text |-> TRUE, at |-> "success"]
RunFailed(lines) == [kind |-> "Failed", lines |-> lines, bad_text |-> FALSE, at |-> "failed"]
RunFailedBadText == [kind |-> "Failed", lines |-> <<>>, bad_text |-> TRUE, at |-> "failed"]
\* Err(Other) leaves at the spawn of the child, at the wait for it, or at
\* the read of its stderr.
RunOther(at) == [kind |-> "Other", lines |-> <<>>, bad_text |-> FALSE, at |-> at]
RunResults ==
  {RunOk(<<>>), RunOk(<<LineRaw("output")>>), RunOkBadText,
   RunFailed(<<LineRaw("error")>>), RunFailedBadText,
   RunOther("spawn"), RunOther("wait"), RunOther("stderr")}

\* JjCommand::run_interactive: what it does to the terminal on the way to
\* the result it returns.
run_interactive(m, result) ==
  LET relinquished == relinquish_terminal(m) IN
  IF result.kind = "Other" THEN [relinquished EXCEPT !.path = result.at]
  ELSE [takeover_terminal(relinquished) EXCEPT !.path = result.at]

run_noninteractive(m, result) == [m EXCEPT !.path = result.at]

\* JjCommand::run.
run(m, cmd, result) ==
  IF cmd.interactive THEN run_interactive(m, result) ELSE run_noninteractive(m, result)

\* Vec::remove(index): the element taken and the vector left.
remove_last(v, index) == [item |-> v[Len(v)], rest |-> SubSeq(v, 1, Len(v) - 1)]
\* A variant of remove that leaves the vector as it is.
remove_keeps(v, index) == [item |-> v[index + 1], rest |-> v]

remove(v, index) ==
  [item |-> v[index + 1], rest |-> SubSeq(v, 1, index) \o SubSeq(v, index + 2, Len(v))]

\* A variant of process_jj_command_queue that resynchronizes after the last
\* command whatever its sync flag.
process_jj_command_queue_ignores_sync_flag(m, result, loaded) ==
  IF Len(m.queued_jj_commands) = 0 THEN m
  ELSE
    LET cmd == remove(m.queued_jj_commands, 0).item
        removed == [m EXCEPT !.queued_jj_commands = remove(m.queued_jj_commands, 0).rest,
                             !.ran = Append(m.ran, cmd)]
        separated == IF Len(m.accumulated_command_output) > 0
                     THEN Append(m.accumulated_command_output, LineRaw(""))
                     ELSE m.accumulated_command_output
        accumulated == [run(removed, cmd, result) EXCEPT
                          !.accumulated_command_output = separated \o to_lines(cmd)]
    IN
    CASE result.kind = "Other" -> [accumulated EXCEPT !.err = TRUE]
      [] result.kind = "Ok" ->
           IF result.bad_text THEN [accumulated EXCEPT !.err = TRUE, !.path = "encoding"]
           ELSE LET extended == [accumulated EXCEPT !.accumulated_command_output =
                                   @ \o result.lines,
                                 !.outs = Append(@, result.lines)]
                IN IF Len(extended.queued_jj_commands) = 0
                   THEN LET final_output == extended.accumulated_command_output
                            shown == [clear(extended) EXCEPT !.info_list = Some(final_output)]
                        IN sync(shown, loaded)
                   ELSE update_info_list_for_queue(extended)
      [] result.kind = "Failed" ->
           IF result.bad_text THEN [accumulated EXCEPT !.err = TRUE, !.path = "encoding"]
           ELSE LET extended == [accumulated EXCEPT !.accumulated_command_output =
                                   @ \o result.lines,
                                 !.outs = Append(@, result.lines)]
                    final_output == extended.accumulated_command_output
                IN [clear(extended) EXCEPT !.info_list = Some(final_output)]

\* Model::process_jj_command_queue.
process_jj_command_queue(m, result, loaded) ==
  IF Len(m.queued_jj_commands) = 0 THEN m
  ELSE
    LET cmd == remove(m.queued_jj_commands, 0).item
        removed == [m EXCEPT !.queued_jj_commands = remove(m.queued_jj_commands, 0).rest,
                             !.ran = Append(m.ran, cmd)]
        separated == IF Len(m.accumulated_command_output) > 0
                     THEN Append(m.accumulated_command_output, LineRaw(""))
                     ELSE m.accumulated_command_output
        accumulated == [run(removed, cmd, result) EXCEPT
                          !.accumulated_command_output = separated \o to_lines(cmd)]
    IN
    CASE result.kind = "Other" -> [accumulated EXCEPT !.err = TRUE]
      [] result.kind = "Ok" ->
           IF result.bad_text THEN [accumulated EXCEPT !.err = TRUE, !.path = "encoding"]
           ELSE LET extended == [accumulated EXCEPT !.accumulated_command_output =
                                   @ \o result.lines,
                                 !.outs = Append(@, result.lines)]
                IN IF Len(extended.queued_jj_commands) = 0
                   THEN LET final_output == extended.accumulated_command_output
                            shown == [clear(extended) EXCEPT !.info_list = Some(final_output)]
                        IN IF cmd.sync THEN sync(shown, loaded) ELSE shown
                   ELSE update_info_list_for_queue(extended)
      [] result.kind = "Failed" ->
           IF result.bad_text THEN [accumulated EXCEPT !.err = TRUE, !.path = "encoding"]
           ELSE LET extended == [accumulated EXCEPT !.accumulated_command_output =
                                   @ \o result.lines,
                                 !.outs = Append(@, result.lines)]
                    final_output == extended.accumulated_command_output
                IN [clear(extended) EXCEPT !.info_list = Some(final_output)]

\* update::handle_key: the Model it leaves and the Message it returns.
Direct(m, msg) == [m |-> m, msg |-> Some(msg), panic |-> FALSE]

\* A variant of handle_key that also takes the key n for SelectNextNode.
handle_key_takes_n(m, key) ==
  CASE key \in {"q", "Ctrl-c"} -> Direct(m, "Quit")
    [] key \in {"Down", "j", "n"} -> Direct(m, "SelectNextNode")
    [] key \in {"Up", "k"} -> Direct(m, "SelectPrevNode")
    [] key = "PageDown" -> Direct(m, "ScrollDownPage")
    [] key = "PageUp" -> Direct(m, "ScrollUpPage")
    [] key \in {"Left", "h"} -> Direct(m, "SelectPrevSiblingNode")
    [] key \in {"Right", "l"} -> Direct(m, "SelectNextSiblingNode")
    [] key = "K" -> Direct(m, "SelectParentNode")
    [] key \in {" ", "Ctrl-r"} -> Direct(m, "Refresh")
    [] key = "Tab" -> Direct(m, "ToggleLogListFold")
    [] key = "Esc" -> Direct(m, "Clear")
    [] key = "@" -> Direct(m, "SelectCurrentWorkingCopy")
    [] key = "L" -> Direct(m, "SetRevset")
    [] key = "I" -> Direct(m, "ToggleIgnoreImmutable")
    [] key = "?" -> Direct(m, "ShowHelp")
    [] OTHER -> handle_command_key(m, key)

handle_key(m, key) ==
  CASE key \in {"q", "Ctrl-c"} -> Direct(m, "Quit")
    [] key \in {"Down", "j"} -> Direct(m, "SelectNextNode")
    [] key \in {"Up", "k"} -> Direct(m, "SelectPrevNode")
    [] key = "PageDown" -> Direct(m, "ScrollDownPage")
    [] key = "PageUp" -> Direct(m, "ScrollUpPage")
    [] key \in {"Left", "h"} -> Direct(m, "SelectPrevSiblingNode")
    [] key \in {"Right", "l"} -> Direct(m, "SelectNextSiblingNode")
    [] key = "K" -> Direct(m, "SelectParentNode")
    [] key \in {" ", "Ctrl-r"} -> Direct(m, "Refresh")
    [] key = "Tab" -> Direct(m, "ToggleLogListFold")
    [] key = "Esc" -> Direct(m, "Clear")
    [] key = "@" -> Direct(m, "SelectCurrentWorkingCopy")
    [] key = "L" -> Direct(m, "SetRevset")
    [] key = "I" -> Direct(m, "ToggleIgnoreImmutable")
    [] key = "?" -> Direct(m, "ShowHelp")
    [] OTHER -> handle_command_key(m, key)

\* update::handle_mouse: the Message of a mouse event, if it has one.
handle_mouse(kind) ==
  CASE kind = "ScrollDown" -> Some("ScrollDown")
    [] kind = "ScrollUp" -> Some("ScrollUp")
    [] kind = "Down(Left)" -> Some("LeftMouseClick")
    [] kind = "Down(Right)" -> Some("RightMouseClick")
    [] OTHER -> None

----------------------------------------------------------------------------
(* The state machine: tui_loop (main.rs 41-47) and update (update.rs       *)
(* 136-145).  One tick is draw, process_jj_command_queue, handle_event,    *)
(* and handle_msg while there is a message.                                *)

\* What load_log_tree gets: a log, or an error.
LoadOk(log) == [ok |-> TRUE, log |-> log]
LoadErr == [ok |-> FALSE, log |-> <<>>]
LoadResults == {LoadOk(log) : log \in Logs} \cup {LoadErr}

\* The answers that matter to a step: the editor only for a message whose
\* handler opens it.
EditorsFor(msg, input) ==
  IF msg = "SetRevset" /\ input = "input1" THEN EditorResults \cup {EditorSome("mine()")}
  ELSE
  IF \/ /\ msg \notin {"Refresh", "Clear", "ToggleIgnoreImmutable", "SetRevset", "ShowHelp",
                        "Quit", "SelectNextNode", "SelectPrevNode",
                        "SelectCurrentWorkingCopy", "ToggleLogListFold", "SaveSelection",
                        "NewAfterTrunkSync", "Squash", "View", "ScrollDownPage",
                        "ScrollUpPage", "SelectNextSiblingNode", "SelectPrevSiblingNode",
                        "SelectParentNode", "ScrollDown", "ScrollUp", "LeftMouseClick",
                        "RightMouseClick"}
        /\ \E i \in 1..Len(Handler(msg).steps) : Handler(msg).steps[i] = input
  THEN EditorResults ELSE {EditorNone}

Cur ==
  [state |-> state, command_keys |-> command_keys,
   queued_jj_commands |-> queued_jj_commands,
   accumulated_command_output |-> accumulated_command_output,
   saved_change_id |-> saved_change_id, saved_file_path |-> saved_file_path,
   saved_log_index |-> saved_log_index, jj_log |-> jj_log, selected |-> selected,
   offset |-> offset, log_list_layout |-> log_list_layout, frame_height |-> frame_height,
   ignore_immutable |-> ignore_immutable, revset |-> revset, info_list |-> info_list,
   batch |-> batch, ran |-> ran, outs |-> outs,
   owns_terminal |-> owns_terminal, err |-> FALSE, sync_called |-> FALSE, path |-> "",
   panic |-> FALSE, overflow_checks |-> TRUE, row |-> last.row]

Set(m) ==
  /\ state' = m.state
  /\ command_keys' = m.command_keys
  /\ queued_jj_commands' = m.queued_jj_commands
  /\ accumulated_command_output' = m.accumulated_command_output
  /\ saved_change_id' = m.saved_change_id
  /\ saved_file_path' = m.saved_file_path
  /\ saved_log_index' = m.saved_log_index
  /\ jj_log' = m.jj_log
  /\ selected' = m.selected
  /\ offset' = m.offset
  /\ log_list_layout' = m.log_list_layout
  /\ frame_height' = m.frame_height
  /\ ignore_immutable' = m.ignore_immutable
  /\ revset' = m.revset
  /\ info_list' = m.info_list
  /\ batch' = m.batch
  /\ ran' = m.ran
  /\ outs' = m.outs
  /\ owns_terminal' = m.owns_terminal

\* The key on the unbound-suffix line that closes a notice, "" without one.
unbound_key_shown(info) ==
  IF IsSome(info) /\ Len(Unwrap(info)) > 0
       /\ Len(Unwrap(info)[Len(Unwrap(info))]) = 4
       /\ Unwrap(info)[Len(Unwrap(info))][1] = unbound_error_line("")[1]
  THEN Unwrap(info)[Len(Unwrap(info))][3].content
  ELSE ""

\* What a step leaves in last; before is the unbound key the notice showed
\* when a key press began, row the row of the mouse event whose Message is
\* current_msg, and saver the chord whose SaveSelection stored what the
\* register holds: the chord of a SaveSelection that left the register with
\* the selection it was dispatched on, None when the register is empty, and
\* as before otherwise.
Step(op, key, msg, result, m) ==
  LET saved_by ==
        IF op = "init" \/ ~IsSome(m.saved_change_id) THEN None
        ELSE IF /\ op = "msg" /\ msg = "SaveSelection"
                /\ m.saved_change_id = get_selected_change_id(Cur)
                /\ m.saved_file_path = get_selected_file_path(Cur)
                /\ m.saved_log_index = Some(selected)
             THEN Some(m.command_keys)
        ELSE last.saver
  IN [op |-> op, key |-> key, msg |-> msg, result |-> result,
      sync_called |-> m.sync_called, path |-> m.path, before |-> "",
      saver |-> saved_by, row |-> 0]

\* The rows of a terminal that shows every row of the list below any notice.
TallFrame == 40

\* Model::new: the fields as constructed, then a first sync that succeeded.
NewModel(log) ==
  sync([state |-> "Running", command_keys |-> <<>>, queued_jj_commands |-> <<>>,
        accumulated_command_output |-> <<>>, saved_change_id |-> None,
        saved_file_path |-> None, saved_log_index |-> None, jj_log |-> <<>>,
        selected |-> 0, offset |-> 0, log_list_layout |-> 0,
        frame_height |-> TallFrame, ignore_immutable |-> FALSE, revset |-> "all()",
        info_list |-> None, batch |-> <<>>, ran |-> <<>>, outs |-> <<>>,
        owns_terminal |-> TRUE, err |-> FALSE, path |-> "",
        sync_called |-> FALSE, panic |-> FALSE, overflow_checks |-> TRUE, row |-> 0],
       LoadOk(log))

InitFrom(m, at) ==
  /\ state = m.state
  /\ command_keys = m.command_keys
  /\ queued_jj_commands = m.queued_jj_commands
  /\ accumulated_command_output = m.accumulated_command_output
  /\ saved_change_id = m.saved_change_id
  /\ saved_file_path = m.saved_file_path
  /\ saved_log_index = m.saved_log_index
  /\ jj_log = m.jj_log
  /\ selected = m.selected
  /\ offset = m.offset
  /\ log_list_layout = m.log_list_layout
  /\ frame_height = m.frame_height
  /\ ignore_immutable = m.ignore_immutable
  /\ revset = m.revset
  /\ info_list = m.info_list
  /\ batch = m.batch
  /\ ran = m.ran
  /\ outs = m.outs
  /\ owns_terminal = m.owns_terminal
  /\ pc = at
  /\ current_msg = None
  /\ ran_in_tick = 0
  /\ last = Step("init", "", "", "", m)

Init == \E log \in Logs : InitFrom(NewModel(log), "draw")

\* view::render_layout: the height of the list area, what the header's two
\* rows and the notice panel (its lines and two more) leave of the frame.
render_layout(m) ==
  LET info == IF IsSome(m.info_list) THEN Len(Unwrap(m.info_list)) + 2 ELSE 0
  IN IF m.frame_height > 2 + info THEN m.frame_height - 2 - info ELSE 0

\* view::view: the list is rendered with its state and the area is stored.
\* Rendering leaves the state alone in an empty area; otherwise it brings a
\* selection past the end back to the last row and moves the offset by as
\* little as shows the selected row.
view(m) ==
  LET height == render_layout(m)
      rows == Len(log_list_tree_positions(m))
      sel == IF m.selected >= rows THEN rows - 1 ELSE m.selected
      off == IF m.offset > rows - 1 THEN rows - 1 ELSE m.offset
  IN IF height = 0 THEN [m EXCEPT !.log_list_layout = 0]
     ELSE [m EXCEPT !.log_list_layout = height,
                    !.selected = sel,
                    !.offset = IF sel < off THEN sel
                               ELSE IF sel >= off + height THEN sel - height + 1
                               ELSE off]

\* A variant of Draw that does not test the loop condition.
DrawAfterQuit ==
  /\ pc = "draw"
  /\ pc' = "process"
  /\ ran_in_tick' = 0
  /\ last' = Step("draw", "", "", "", Cur)
  /\ Set(view(Cur))
  /\ UNCHANGED current_msg

\* tui_loop: the loop condition holds and the frame is drawn.
Draw ==
  /\ pc = "draw"
  /\ state /= "Quit"
  /\ pc' = "process"
  /\ ran_in_tick' = 0
  /\ last' = Step("draw", "", "", "", Cur)
  /\ Set(view(Cur))
  /\ UNCHANGED current_msg

\* tui_loop: the loop condition fails and the program returns.
Exit ==
  /\ pc = "draw"
  /\ state = "Quit"
  /\ pc' = "exit"
  /\ last' = Step("exit", "", "", "", Cur)
  /\ UNCHANGED <<state, command_keys, queued_jj_commands, accumulated_command_output,
                 saved_change_id, saved_file_path, saved_log_index, jj_log, selected,
                 offset, log_list_layout, frame_height,
                 ignore_immutable, revset, info_list, current_msg, batch, ran,
                 outs, owns_terminal, ran_in_tick>>

\* update: model.process_jj_command_queue()?  A run answers only when a
\* command is queued, a load only after the last command of a batch that
\* asks for a resync.
ProcessQueue ==
  /\ pc = "process"
  /\ \E result \in (IF Len(queued_jj_commands) = 0 THEN {RunOther("spawn")} ELSE RunResults),
        loaded \in (IF Len(queued_jj_commands) = 1 /\ queued_jj_commands[1].sync
                    THEN LoadResults ELSE {LoadErr}) :
       LET m == process_jj_command_queue(Cur, result, loaded) IN
         /\ Set(m)
         /\ pc' = IF m.err THEN "err" ELSE "event"
         /\ ran_in_tick' = ran_in_tick + Len(m.ran) - Len(ran)
         /\ last' = Step("process", "",  "",
                         IF Len(queued_jj_commands) = 0 THEN "" ELSE result.kind, m)
  /\ UNCHANGED current_msg

\* A variant of NoEvent that goes on to the next update without a draw.
NoEventWithoutDraw ==
  /\ pc = "event"
  /\ pc' = "process"
  /\ last' = Step("event", "", "", "", Cur)
  /\ UNCHANGED <<state, command_keys, queued_jj_commands, accumulated_command_output,
                 saved_change_id, saved_file_path, saved_log_index, jj_log, selected,
                 offset, log_list_layout, frame_height,
                 ignore_immutable, revset, info_list, current_msg, batch, ran,
                 outs, owns_terminal, ran_in_tick>>

\* update: handle_event when poll times out, or the event is neither a key
\* press nor a mouse event.
NoEvent ==
  /\ pc = "event"
  /\ pc' = "draw"
  /\ last' = Step("event", "", "", "", Cur)
  /\ UNCHANGED <<state, command_keys, queued_jj_commands, accumulated_command_output,
                 saved_change_id, saved_file_path, saved_log_index, jj_log, selected,
                 offset, log_list_layout, frame_height,
                 ignore_immutable, revset, info_list, current_msg, batch, ran,
                 outs, owns_terminal, ran_in_tick>>

\* update: handle_event on a key press.
KeyEvent(key) ==
  /\ pc = "event"
  /\ key \in {" ", "Ctrl-r"} => refresh_periods(Cur) <= MaxRefreshPeriods
  /\ LET r == handle_key(Cur, key) IN
       /\ Set(r.m)
       /\ current_msg' = r.msg
       /\ pc' = IF r.panic THEN "panic" ELSE IF IsSome(r.msg) THEN "msg" ELSE "draw"
       /\ last' = [Step("event", key, "", "", r.m)
                     EXCEPT !.before = unbound_key_shown(info_list)]
  /\ UNCHANGED ran_in_tick

\* update: handle_event on a mouse event at a row of the frame.
MouseEvent(kind, row) ==
  /\ pc = "event"
  /\ current_msg' = handle_mouse(kind)
  /\ pc' = IF IsSome(handle_mouse(kind)) THEN "msg" ELSE "draw"
  /\ last' = [Step("event", "", "", "", Cur) EXCEPT !.row = row]
  /\ UNCHANGED <<state, command_keys, queued_jj_commands, accumulated_command_output,
                 saved_change_id, saved_file_path, saved_log_index, jj_log, selected,
                 offset, log_list_layout, frame_height,
                 ignore_immutable, revset, info_list, batch, ran,
                 outs, owns_terminal, ran_in_tick>>

\* A variant of HandleMsg in which SaveSelection returns Refresh as a
\* follow-up Message.
HandleMsgChainsRefresh ==
  /\ pc = "msg"
  /\ \E in1 \in EditorsFor(Unwrap(current_msg), "input1"),
        in2 \in EditorsFor(Unwrap(current_msg), "input2"),
        loaded \in IF Unwrap(current_msg) \in {"Refresh", "SetRevset"}
                   THEN LoadResults ELSE {LoadErr} :
       LET m == handle_msg(Cur, Unwrap(current_msg), <<in1, in2>>, loaded) IN
         /\ Set(m)
         /\ pc' = IF m.err THEN "err"
                  ELSE IF current_msg = Some("SaveSelection") THEN "msg" ELSE "draw"
         /\ last' = Step("msg", "", Unwrap(current_msg), "", m)
  /\ current_msg' = IF current_msg = Some("SaveSelection") THEN Some("Refresh") ELSE None
  /\ UNCHANGED ran_in_tick

\* update: one turn of the while loop, handle_msg on the current message;
\* checks tells whether the build checks arithmetic overflow.
HandleMsg ==
  /\ pc = "msg"
  /\ \E in1 \in EditorsFor(Unwrap(current_msg), "input1"),
        in2 \in EditorsFor(Unwrap(current_msg), "input2"),
        loaded \in IF Unwrap(current_msg) \in {"Refresh", "SetRevset"}
                   THEN LoadResults ELSE {LoadErr},
        checks \in BOOLEAN :
       LET m == handle_msg([Cur EXCEPT !.overflow_checks = checks],
                           Unwrap(current_msg), <<in1, in2>>, loaded) IN
         /\ Set(m)
         /\ pc' = IF m.panic THEN "panic" ELSE IF m.err THEN "err" ELSE "draw"
         /\ last' = Step("msg", "", Unwrap(current_msg), "", m)
  /\ current_msg' = None
  /\ UNCHANGED ran_in_tick

\* The keys pressed in the runs of the whole program.
Next ==
  \/ Draw \/ Exit \/ ProcessQueue \/ NoEvent \/ HandleMsg
  \/ \E key \in {"r", "o", "Enter", "n", "M", "t", "j", "Esc", " ", "q", "z"} : KeyEvent(key)

Spec == Init /\ [][Next]_vars

----------------------------------------------------------------------------
(* One dispatch from every chord: handle_key on any key and handle_msg on  *)
(* the message it returns, started with the chord at any interior node of  *)
(* the trie, any row selected and any value of the register (the handlers  *)
(* take the register as they find it).  The log is LogA as first loaded,   *)
(* with its last revision unfolded too.                                    *)

InteriorChords == {c \in DOMAIN CommandTree : CommandTree[c].children}

AllKeys ==
  {CommandTreeItems[i].keys[Len(CommandTreeItems[i].keys)] : i \in 1..Len(CommandTreeItems)}
    \cup {"q", "Ctrl-c", "Down", "j", "Up", "k", " ", "Ctrl-r", "Tab", "Esc", "@", "L",
          "I", "?", "z"}

DispatchModels ==
  LET synced == NewModel(LogA)
      m0 == toggle_current_fold([synced EXCEPT !.selected = Len(log_list_tree_positions(synced)) - 1])
      rows == 0..(Len(log_list_tree_positions(m0)) - 1)
      saved == {m0} \cup {save_selection([m0 EXCEPT !.selected = row]) : row \in {r \in rows :
                  IsSome(get_change_id(m0, log_list_tree_positions(m0)[r + 1]))}}
  IN {[m EXCEPT !.selected = row, !.command_keys = chord, !.info_list = None] :
        m \in saved, row \in rows, chord \in InteriorChords}

DispatchInit == \E m \in DispatchModels : InitFrom(view(m), "event")

DispatchNext == HandleMsg \/ \E key \in AllKeys : KeyEvent(key)

DispatchSpec == DispatchInit /\ [][DispatchNext]_vars

----------------------------------------------------------------------------
(* The whole program with the keys of a batch, of the ignore-immutable     *)
(* toggle and of quit: n, M enqueues fetch and new, I toggles the flag at  *)
(* any tick, between the queue steps of the batch too.                     *)

ToggleNext ==
  \/ Draw \/ Exit \/ ProcessQueue \/ NoEvent \/ HandleMsg
  \/ \E key \in {"n", "M", "I", "q"} : KeyEvent(key)

ToggleSpec == Init /\ [][ToggleNext]_vars

----------------------------------------------------------------------------
(* The whole program with the keys of two two-step families: r, o saves    *)
(* the revision to rebase and i, i the revision to compare, Enter is the   *)
(* destination action of either, j moves the selection, Esc clears and q  *)
(* quits.                                                                  *)

RegisterNext ==
  \/ Draw \/ Exit \/ ProcessQueue \/ NoEvent \/ HandleMsg
  \/ \E key \in {"r", "o", "i", "Enter", "j", "Esc", "q"} : KeyEvent(key)

RegisterSpec == Init /\ [][RegisterNext]_vars

----------------------------------------------------------------------------
(* The whole program when no input event arrives while a batch is pending: *)
(* n, m enqueues one command, n, M two, q quits.  The loop of tui_loop     *)
(* goes on turning as long as the program runs: the frame is drawn, the    *)
(* queue step is taken, and a poll that sees no event returns.             *)

QueueNext ==
  \/ Draw \/ Exit \/ ProcessQueue \/ NoEvent \/ HandleMsg
  \/ /\ queued_jj_commands = <<>>
     /\ \E key \in {"n", "m", "M", "q"} : KeyEvent(key)

QueueSpec ==
  /\ Init /\ [][QueueNext]_vars
  /\ WF_vars(Draw) /\ WF_vars(ProcessQueue) /\ WF_vars(NoEvent)

----------------------------------------------------------------------------
(* The whole program with the key of SetRevset: L asks for a revset and    *)
(* loads the log with it, r, o leaves a chord and a register behind, n, M  *)
(* a batch of two, q quits.                                                *)

RevsetNext ==
  \/ Draw \/ Exit \/ ProcessQueue \/ NoEvent \/ HandleMsg
  \/ \E key \in {"L", "r", "o", "n", "M", "q"} : KeyEvent(key)

RevsetSpec == Init /\ [][RevsetNext]_vars

----------------------------------------------------------------------------
(* One batch from every chord: one key press from any interior chord, the  *)
(* dispatch of the Message it resolved to, and then the loop without       *)
(* further input, which runs the batch the handler enqueued.               *)

BatchNext ==
  \/ HandleMsg \/ Draw \/ Exit \/ ProcessQueue \/ NoEvent
  \/ /\ last.op = "init"
     /\ \E key \in AllKeys : KeyEvent(key)

BatchSpec == DispatchInit /\ [][BatchNext]_vars

----------------------------------------------------------------------------
(* Runs of the program in a terminal of eight rows, which leave the list   *)
(* area six rows and fewer under a notice: the navigation keys and the     *)
(* mouse, a fold toggle and an action that resyncs (n, n).                 *)

NavLog ==
  << Commit("c1", TRUE, FALSE, <<"f1", "f2">>), Elided, Commit("c2", FALSE, TRUE, <<"f3">>),
     Commit("c3", FALSE, TRUE, <<>>) >>

\* The offset up to which the wheel is turned down.
MaxOffset == 7

NavNext ==
  \/ Draw \/ Exit \/ ProcessQueue \/ NoEvent \/ HandleMsg
  \/ \E key \in {"j", "k", "PageDown", "PageUp", "h", "l", "K", "@", "Tab", "n", "q"} :
       KeyEvent(key)
  \/ \E kind \in {"ScrollUp", "Moved"} : MouseEvent(kind, 0)
  \/ offset < MaxOffset /\ MouseEvent("ScrollDown", 0)
  \/ \E kind \in {"Down(Left)", "Down(Right)"}, row \in 0..(frame_height - 1) :
       MouseEvent(kind, row)

NavSpec ==
  /\ InitFrom([NewModel(NavLog) EXCEPT !.frame_height = 8], "draw")
  /\ [][NavNext]_vars

----------------------------------------------------------------------------
(* One navigation event from every chord: a navigation key, the fold key,  *)
(* the help key or a mouse event at a row of the frame (the header, the    *)
(* rows of the list, one below them), and handle_msg on its Message,       *)
(* started as the dispatches above; in the ticks after it, Enter.          *)

FrameKeys ==
  {"Down", "j", "Up", "k", "PageDown", "PageUp", "Left", "h", "Right", "l", "K", "Tab",
   "@", "?"}

FrameNext ==
  \/ HandleMsg \/ Draw \/ ProcessQueue
  \/ \E key \in FrameKeys \cup {"Enter"} :
       /\ IF key = "Enter" THEN last.op = "process" ELSE last.op = "init"
       /\ KeyEvent(key)
  \/ /\ last.op = "init"
     /\ \E kind \in {"ScrollDown", "ScrollUp", "Down(Left)", "Down(Right)"},
           row \in 0..(LOG_LIST_Y + 5) : MouseEvent(kind, row)

FrameSpec == DispatchInit /\ [][FrameNext]_vars

----------------------------------------------------------------------------
(* Properties *)

RegisterEmpty ==
  saved_change_id = None /\ saved_file_path = None /\ saved_log_index = None

InvalidSelectionNotice == Some(<< <<[content |-> "Invalid selection", fg |-> "Reset"]>> >>)

\* The invocation lines of a notice: the lines that open with the prompt.
IsInvocationLine(line) == Len(line) > 0 /\ line[1] = [content |-> ">", fg |-> "Yellow"]
InvocationLines(text) == SelectSeq(text, IsInvocationLine)
InvocationLineOf(cmd) ==
  << [content |-> ">", fg |-> "Yellow"], [content |-> " jj ", fg |-> "Reset"],
     [content |-> Join(cmd.args, " "), fg |-> "Reset"] >>

\* The keys handle_key maps to a Message itself; every other key goes to
\* handle_command_key.
DirectKeys ==
  {"q", "Ctrl-c", "Down", "j", "Up", "k", "PageDown", "PageUp", "Left", "h", "Right", "l",
   "K", " ", "Ctrl-r", "Tab", "Esc", "@", "L", "I", "?"}

\* The registrations of a chord in CommandTree::new.
Registrations(chord) ==
  {i \in 1..Len(CommandTreeItems) : CommandTreeItems[i].keys = chord}

\* The destination actions: the actions registered under a SaveSelection node.
DestinationMessages ==
  {Unwrap(CommandTreeItems[i].node.action) : i \in
     {i \in 1..Len(CommandTreeItems) :
        /\ IsSome(CommandTreeItems[i].node.action)
        /\ \E j \in Registrations(Front(CommandTreeItems[i].keys)) :
             CommandTreeItems[j].node.action = Some("SaveSelection")}}

\* C1: when a queued command fails (exits non-zero) and
\* process_jj_command_queue returns, that command is the only one run by the
\* step, the queue is empty (the commands behind it are discarded, not run),
\* the notice holds the invocation lines of exactly the commands run so far
\* followed by the error text, and the step calls no sync: the log and the
\* selection stay as they were.
C1_QueueFailureAtomicity ==
  [][(/\ pc = "process"
      /\ Len(queued_jj_commands) > 0
      /\ last'.result = "Failed"
      /\ pc' = "event")
     => /\ ran' = Append(ran, queued_jj_commands[1])
        /\ queued_jj_commands' = <<>>
        /\ accumulated_command_output' = <<>>
        /\ IsSome(info_list')
        /\ InvocationLines(Unwrap(info_list')) =
             [i \in 1..Len(ran') |-> InvocationLineOf(batch[i])]
        /\ Unwrap(info_list')[Len(Unwrap(info_list'))] =
             <<[content |-> "error", fg |-> "Reset"]>>
        /\ ~last'.sync_called
        /\ jj_log' = jj_log
        /\ selected' = selected]_vars

\* C1 witness: the first command of a batch of two has failed; the second
\* was never run and the queue is empty.
C1_Witness ==
  /\ pc = "event"
  /\ last.op = "process" /\ last.result = "Failed"
  /\ Len(batch) = 2 /\ ran = <<batch[1]>>
  /\ queued_jj_commands = <<>>
  /\ Len(InvocationLines(Unwrap(info_list))) = 1

\* C2: the commands of a batch are run front to back: what has been run is
\* always a prefix of the batch as enqueued (so each is run at most once and
\* none out of order), at most one is run between two draws, and a command
\* is run only by process_jj_command_queue, taking the front of the queue,
\* never by the handling of an event or a message.
C2_FrontToBackOnePerTick ==
  [][/\ IsPrefix(ran', batch')
     /\ ran_in_tick' <= 1
     /\ (ran' /= ran /\ ran' /= <<>>)
          => /\ pc = "process"
             /\ ran' = Append(ran, queued_jj_commands[1])
             /\ queued_jj_commands[1] = batch[Len(ran) + 1]]_vars

\* C2 witness: both commands of a batch of two have been run, in order.
C2_Witness ==
  /\ Len(batch) = 2 /\ ran = batch /\ batch[1] /= batch[2]
  /\ ran_in_tick = 1

\* The second command of NewAfterTrunkSync is pending: git fetch has been
\* run and has succeeded, new trunk() is the queue.
C3_NewTrunkPending ==
  /\ Len(batch) = 2
  /\ batch[1].args = <<"git", "fetch">> /\ batch[2].args = <<"new", "trunk()">>
  /\ ran = <<batch[1]>>
  /\ queued_jj_commands = <<batch[2]>>

\* C3: once NewAfterTrunkSync has enqueued [git fetch, new trunk()] and git
\* fetch has succeeded, new trunk() stays queued until it is run, whatever
\* input is handled in between, unless the user issues Clear or Quit.
C3_CompoundRunsToEnd ==
  [][(/\ C3_NewTrunkPending
      /\ ~(pc = "msg" /\ current_msg \in {Some("Clear"), Some("Quit")}))
     => \/ C3_NewTrunkPending'
        \/ ran' = batch]_vars

\* C4: a key for which the chord's node has no edge gives no Message, leaves
\* the chord as it was before the key, and ends the notice with the
\* unbound-suffix line of that key.
C4_UnboundKeyKeepsChord ==
  [][(/\ pc = "event"
      /\ last'.op = "event"
      /\ last'.key /= ""
      /\ last'.key \notin DirectKeys
      /\ Registrations(Append(command_keys, last'.key)) = {})
     => /\ current_msg' = None
        /\ pc' = "draw"
        /\ command_keys' = command_keys
        /\ IsSome(info_list')
        /\ LET line == Unwrap(info_list')[Len(Unwrap(info_list'))] IN
             /\ Len(line) = 4
             /\ line[1] = [content |-> " Unbound suffix: ", fg |-> "Red"]
             /\ line[3] = [content |-> last'.key, fg |-> "Green"]]_vars

\* C4 witness: z pressed after a: the chord is a again, with no Message.
C4_Witness ==
  /\ pc = "draw"
  /\ last.op = "event" /\ last.key = "z"
  /\ command_keys = <<"a">>
  /\ current_msg = None
  /\ Unwrap(info_list)[Len(Unwrap(info_list))][1].content = " Unbound suffix: "

\* C5: a key that leads to a registered node gives that node's action if it
\* has one and no Message otherwise; the chord is emptied exactly when the
\* node has an action and no children, else it is the chord with the key
\* appended; a node with children shows its help listing.
C5_ExistingNode ==
  [][(/\ pc = "event"
      /\ last'.op = "event"
      /\ last'.key /= ""
      /\ last'.key \notin DirectKeys)
     => \A i \in Registrations(Append(command_keys, last'.key)) :
          LET node == CommandTreeItems[i].node IN
            /\ current_msg' = node.action
            /\ command_keys' = IF IsSome(node.action) /\ ~node.children
                               THEN <<>> ELSE Append(command_keys, last'.key)
            /\ node.children =>
                 info_list' = Some(get_help(Append(command_keys, last'.key)))]_vars

\* C5 witness: o pressed after r reaches a node with an action and children:
\* SaveSelection is returned and the chord r,o is kept, its help shown.
C5_Witness ==
  /\ pc = "msg"
  /\ last.op = "event" /\ last.key = "o"
  /\ command_keys = <<"r", "o">>
  /\ current_msg = Some("SaveSelection")
  /\ info_list = Some(get_help(<<"r", "o">>))

\* C6: SaveSelection on a row that lies in a revision stores that revision's
\* change id, the row's file path if it is a file row, and the row index,
\* and leaves the queue and the accumulator alone; and a step that takes the
\* register from empty to set is the handling of SaveSelection.
C6_SaveSelectionStores ==
  [][/\ (/\ pc = "msg"
         /\ current_msg = Some("SaveSelection")
         /\ jj_log[log_list_tree_positions(Cur)[selected + 1][1] + 1].kind = "commit")
        => LET pos == log_list_tree_positions(Cur)[selected + 1]
               commit == jj_log[pos[1] + 1]
           IN /\ saved_change_id' = Some(commit.change_id)
              /\ saved_file_path' =
                   IF Len(pos) = 2 THEN Some(commit.files[pos[2] + 1]) ELSE None
              /\ saved_log_index' = Some(selected)
              /\ queued_jj_commands' = queued_jj_commands
              /\ accumulated_command_output' = accumulated_command_output
              /\ batch' = batch
     /\ (RegisterEmpty /\ ~RegisterEmpty')
        => (pc = "msg" /\ current_msg = Some("SaveSelection"))]_vars

\* C6 witness: SaveSelection on the file row of the working copy.
C6_Witness ==
  /\ last.op = "msg" /\ last.msg = "SaveSelection"
  /\ saved_change_id = Some("c1")
  /\ saved_file_path = Some("f1")
  /\ saved_log_index = Some(1)
  /\ queued_jj_commands = <<>>

\* C7: a destination action dispatched with the register set and a row of a
\* revision selected enqueues one descriptor; the saved change id is its
\* source and the selected change id its destination, in that order or as
\* the range saved::selected, and a file path among its arguments is the
\* saved one.  RebaseOntoDestination gives rebase --source saved --onto
\* selected, ParallelizeRange gives parallelize saved::selected.
C7_DestinationOperands ==
  [][(/\ pc = "msg"
      /\ Unwrap(current_msg) \in DestinationMessages
      /\ IsSome(saved_change_id)
      /\ jj_log[log_list_tree_positions(Cur)[selected + 1][1] + 1].kind = "commit")
     => LET source == Unwrap(saved_change_id)
            destination == jj_log[log_list_tree_positions(Cur)[selected + 1][1] + 1].change_id
            msg == Unwrap(current_msg)
        IN /\ Len(queued_jj_commands') = 1
           /\ batch' = queued_jj_commands'
           /\ LET args == queued_jj_commands'[1].args IN
                /\ \/ \E i, j \in 1..Len(args) :
                        i < j /\ args[i] = source /\ args[j] = destination
                   \/ \E i \in 1..Len(args) : args[i] = source \o "::" \o destination
                /\ \A i \in 1..Len(args) :
                     args[i] \in {"f1", "f2"} => saved_file_path = Some(args[i])
                /\ IsSome(saved_file_path) /\ msg \in {"AbsorbInto", "SquashInto",
                       "RestoreFromInto", "InterdiffFromSelectionToDestination"}
                     => args[Len(args)] = Unwrap(saved_file_path)
                /\ msg = "RebaseOntoDestination"
                     => args = <<"rebase", "--source", source, "--onto", destination>>
                /\ msg = "ParallelizeRange"
                     => args = <<"parallelize", source \o "::" \o destination>>]_vars

\* C7 witness: c1 and its file saved, c2's file row selected at dispatch.
C7_Witness ==
  /\ last.op = "msg" /\ last.msg = "RebaseOntoDestination"
  /\ saved_change_id = Some("c1") /\ saved_file_path = Some("f1")
  /\ selected = 4
  /\ Len(queued_jj_commands) = 1
  /\ queued_jj_commands[1].args = <<"rebase", "--source", "c1", "--onto", "c2">>

\* The operand a message's handler finds absent: the register for a
\* destination action, the revision or the file of the selected row for an
\* action that reads it.
C8_OperandAbsent(msg) ==
  LET pos == log_list_tree_positions(Cur)[selected + 1]
      reads(what) ==
        /\ msg \notin {"SaveSelection", "Squash", "View", "NewAfterTrunkSync"}
        /\ \E i \in 1..Len(Handler(msg).steps) : Handler(msg).steps[i] = what
  IN \/ msg \in DestinationMessages /\ saved_change_id = None
     \/ /\ jj_log[pos[1] + 1].kind /= "commit"
        /\ msg \in {"SaveSelection", "Squash", "View"} \/ reads("selected")
     \/ Len(pos) < 2 /\ reads("selected_file")

\* The messages the trie can return (handle_msg's other arms take no operand).
C8_TrieMessages ==
  {Unwrap(CommandTreeItems[i].node.action) :
     i \in {i \in 1..Len(CommandTreeItems) : IsSome(CommandTreeItems[i].node.action)}}

\* C8: an action dispatched while an operand it requires is absent sets the
\* notice to Invalid selection and builds no descriptor: the queue and the
\* accumulator are as before, nothing is enqueued, and a register that was
\* empty is still empty.
C8_AbsentOperandInvalidSelection ==
  [][(/\ pc = "msg"
      /\ Unwrap(current_msg) \in C8_TrieMessages
      /\ C8_OperandAbsent(Unwrap(current_msg)))
     => /\ info_list' = InvalidSelectionNotice
        /\ queued_jj_commands' = queued_jj_commands
        /\ accumulated_command_output' = accumulated_command_output
        /\ batch' = batch
        /\ pc' = "draw"
        /\ RegisterEmpty => RegisterEmpty']_vars

\* C8 witness: RebaseBranchOntoDestination dispatched with an empty register
\* and a revision selected.
C8_Witness ==
  /\ last.op = "msg" /\ last.msg = "RebaseBranchOntoDestination"
  /\ RegisterEmpty
  /\ jj_log[log_list_tree_positions(Cur)[selected + 1][1] + 1].kind = "commit"
  /\ info_list = InvalidSelectionNotice
  /\ queued_jj_commands = <<>> /\ batch = <<>>

\* C9: after the handling of a message has ended with the notice Invalid
\* selection, the chord is empty and the register is empty.
C9_InvalidSelectionClears ==
  (last.op = "msg" /\ info_list = InvalidSelectionNotice)
    => (command_keys = <<>> /\ RegisterEmpty)

\* C10: the three fields of the register are set or cleared together: no
\* saved change id means no saved file path and no saved row, and the saved
\* row is there exactly when the saved change id is.
C10_RegisterConsistent ==
  /\ saved_change_id = None => (saved_file_path = None /\ saved_log_index = None)
  /\ (saved_log_index /= None) <=> (saved_change_id /= None)

\* C10 witness: the register is set, all three fields, after SaveSelection
\* on a file row.
C10_Witness ==
  /\ pc = "draw"
  /\ saved_change_id /= None /\ saved_file_path /= None /\ saved_log_index /= None

\* C11: when the last command of a batch has succeeded and
\* process_jj_command_queue returns, the register is empty and the chord is
\* empty; in particular the register a destination action read to build the
\* batch is gone, and a second dispatch of a destination action finds it
\* empty.
C11_SuccessClearsRegister ==
  [][(/\ pc = "process"
      /\ Len(queued_jj_commands) = 1
      /\ last'.result = "Ok"
      /\ pc' = "event")
     => /\ RegisterEmpty'
        /\ command_keys' = <<>>
        /\ ran' = batch]_vars

\* C11 witness: the rebase built by RebaseOntoDestination from the saved c1
\* has been run with success; the register is empty.
C11_Witness ==
  /\ pc = "event"
  /\ last.op = "process" /\ last.result = "Ok"
  /\ Len(batch) = 1 /\ ran = batch
  /\ Len(batch[1].args) = 5
  /\ SubSeq(batch[1].args, 1, 3) = <<"rebase", "--source", "c1">>
  /\ RegisterEmpty /\ command_keys = <<>>

\* C12: a step of process_jj_command_queue calls sync exactly when it runs
\* the last command of the batch, that command exits 0, its output is read,
\* and its sync flag is set; no step that leaves commands queued calls sync.
\* When sync is called the transient state has been cleared already (even
\* if sync then fails), and a step that returns without calling sync leaves
\* the log and the selection as they were.
C12_ResyncIffFlagOnLast ==
  [][(pc = "process" /\ Len(queued_jj_commands) > 0)
     => LET cmd == queued_jj_commands[1]
            completes == /\ Len(queued_jj_commands) = 1
                         /\ last'.result = "Ok"
                         /\ accumulated_command_output' = <<>>
        IN /\ last'.sync_called <=> (completes /\ cmd.sync)
           /\ last'.sync_called
                => /\ RegisterEmpty' /\ command_keys' = <<>>
                   /\ queued_jj_commands' = <<>>
                   /\ ran' = batch
                   /\ IsSome(info_list')
           /\ (~last'.sync_called /\ pc' = "event")
                => (jj_log' = jj_log /\ selected' = selected)]_vars

\* C12 witness: git fetch and new trunk() have both been run, and the step
\* that ran new trunk() called sync, which loaded the log LogB.
C12_Witness ==
  /\ pc = "event"
  /\ last.op = "process" /\ last.result = "Ok" /\ last.sync_called
  /\ Len(batch) = 2 /\ ran = batch
  /\ batch[1].sync /\ batch[2].sync
  /\ jj_log = NewModel(LogB).jj_log /\ selected = NewModel(LogB).selected

\* The transcript of the first n commands run: for each, in the order run,
\* its invocation line, a blank line and the output it surfaced, with one
\* more blank line between a command's output and the next command.
RECURSIVE Transcript(_)
Transcript(n) ==
  IF n = 0 THEN <<>>
  ELSE (IF n = 1 THEN <<>> ELSE Append(Transcript(n - 1), <<>>))
         \o << InvocationLineOf(ran[n]), <<>> >> \o outs[n]

\* C13: when a batch has completed, by the success of its last command or
\* by the first failure, the notice is the transcript of exactly the
\* commands of this batch that were run (a prefix of the batch), in the
\* order they were run, each with the output it surfaced; nothing of a
\* command that was not run, nothing of an earlier batch.
C13_NoticeIsFullTranscript ==
  (/\ last.op = "process"
   /\ last.result \in {"Ok", "Failed"}
   /\ queued_jj_commands = <<>>
   /\ Len(outs) = Len(ran))
    => /\ IsPrefix(ran, batch)
       /\ last.result = "Ok" => ran = batch
       /\ info_list = Some(Transcript(Len(ran)))
       /\ accumulated_command_output = <<>>

\* C13 witness: a batch of two completed, the first command with output
\* and the second without.
C13_Witness ==
  /\ pc = "event"
  /\ last.op = "process" /\ last.result = "Ok"
  /\ Len(batch) = 2 /\ ran = batch
  /\ outs = << <<LineRaw("output")>>, <<>> >>
  /\ Len(Unwrap(info_list)) = 6

\* The notice of a command about to run: its invocation line, a blank line
\* and the Running... marker.
AboutToRun(cmd) ==
  << InvocationLineOf(cmd), <<>>, <<[content |-> "Running...", fg |-> "Reset"]>> >>

\* C14: (1) the handling of a message that enqueues a batch leaves the
\* accumulator empty, the batch as the queue and the about-to-run notice of
\* its first command, and goes on to the draw; (2) when the first command of
\* a batch is about to be run, the step before was the draw and the frame
\* drawn showed that notice; (3) after a command that is not the last has
\* succeeded, the notice is the transcript so far followed by the
\* about-to-run notice of the new front of the queue.
C14_EnqueueNoticeRenderedFirst ==
  [][/\ (/\ pc = "msg"
         /\ batch' /= <<>> /\ ran' = <<>>
         /\ (batch' /= batch \/ ran /= <<>>))
        => /\ accumulated_command_output' = <<>>
           /\ queued_jj_commands' = batch'
           /\ info_list' = Some(AboutToRun(batch'[1]))
           /\ pc' = "draw"
     /\ (/\ pc = "process"
         /\ queued_jj_commands /= <<>> /\ ran = <<>>)
        => /\ last.op = "draw"
           /\ queued_jj_commands = batch
           /\ info_list = Some(AboutToRun(batch[1]))
     /\ (/\ pc = "process"
         /\ Len(queued_jj_commands) > 1
         /\ last'.result = "Ok"
         /\ pc' = "event")
        => /\ accumulated_command_output' = Transcript(Len(ran))'
           /\ info_list' = Some(Transcript(Len(ran))' \o
                                  AboutToRun(queued_jj_commands[2]))
           /\ queued_jj_commands' = Tail(queued_jj_commands)]_vars

\* C14 witness: NewAfterTrunkSync has enqueued its two commands, the frame
\* with "jj git fetch" and Running... has been drawn, nothing has been run.
C14_Witness ==
  /\ pc = "process" /\ last.op = "draw"
  /\ Len(batch) = 2 /\ queued_jj_commands = batch /\ ran = <<>>
  /\ info_list = Some(AboutToRun(batch[1]))
  /\ batch[1].args = <<"git", "fetch">>

\* C15: whenever the handling of a message enqueues a batch, the queue it
\* replaces is empty: no command still waiting to be run is dropped by a
\* new dispatch.
C15_EnqueueOnlyWhenDrained ==
  [][(/\ pc = "msg"
      /\ batch' /= <<>> /\ ran' = <<>>
      /\ (batch' /= batch \/ ran /= <<>>))
     => queued_jj_commands = <<>>]_vars

\* C16: the state goes from Running to Quit only in the handling of the
\* message Quit, which always sets it; the handling of any other message
\* leaves the state Running; and once the state is Quit the only step left
\* is the return of tui_loop: no draw, no queue step, no event, and the
\* commands still queued are not run.
C16_QuitOnlyByQuitAndTerminal ==
  [][/\ (state' = "Quit" /\ state /= "Quit")
        => (pc = "msg" /\ current_msg = Some("Quit"))
     /\ (pc = "msg" /\ current_msg = Some("Quit")) => state' = "Quit"
     /\ (pc = "msg" /\ current_msg /= Some("Quit")) => state' = "Running"
     /\ state = "Quit"
        => /\ pc = "draw" /\ pc' = "exit"
           /\ last'.op = "exit"
           /\ state' = "Quit"
           /\ ran' = ran /\ queued_jj_commands' = queued_jj_commands
           /\ info_list' = info_list]_vars

\* C16 witness: the program has returned after Quit with new trunk() still
\* queued and not run.
C16_Witness ==
  /\ pc = "exit" /\ state = "Quit"
  /\ Len(batch) = 2 /\ Len(ran) = 1 /\ Len(queued_jj_commands) = 1

\* C17: wherever control is in the loop, that is after the queue step or
\* the handler has returned by whichever path (the child or the editor
\* succeeded, exited non-zero, could not be spawned, could not be waited
\* for, its stderr could not be read), the application owns the terminal.
C17_TerminalReacquired == owns_terminal

CancelledNotice == Some(<< <<[content |-> "Cancelled", fg |-> "Reset"]>> >>)

\* C18: when the handling of a message asks the editor for text and the
\* editor exits with a failure status or the text left is empty, the action
\* is cancelled: the notice is Cancelled, the queue is as before, nothing is
\* enqueued, the state stays Running and update returns to the loop without
\* an error.
C18_EditorFailureOrEmptyCancels ==
  [][(/\ pc = "msg"
      /\ last'.path \in {"status", "empty"})
     => /\ info_list' = CancelledNotice
        /\ queued_jj_commands' = queued_jj_commands
        /\ batch' = batch
        /\ state' = "Running"
        /\ pc' = "draw"]_vars

\* The paths by which an infrastructure failure leaves a handler: a child
\* or the editor that cannot be spawned or waited for, a stream or file
\* that cannot be read, output that is not text, a log that cannot be
\* loaded.
InfrastructureFailures ==
  {"spawn", "wait", "stderr", "tempfile", "read", "encoding", "load"}

\* C19: update returns an error only on an infrastructure failure; a key
\* with no edge under the chord, an invalid selection, a cancelled input
\* and a command that exits non-zero leave update without an error.
C19_OnlyInfrastructureTerminates ==
  [][/\ pc' = "err" => last'.path \in InfrastructureFailures
     /\ (\/ pc = "msg" /\ info_list' \in {InvalidSelectionNotice, CancelledNotice}
         \/ pc = "process" /\ last'.result = "Failed" /\ last'.path = "failed"
         \/ /\ pc = "event" /\ last'.key /= "" /\ last'.key \notin DirectKeys
            /\ Registrations(Append(command_keys, last'.key)) = {})
        => pc' \notin {"err", "panic", "exit"}]_vars

\* C20 as stated: in a tick the queue step comes after the handling of the
\* tick's event and before the render, so the step before a queue step is
\* the handling of an event or a message and the step after it is the draw.
C20_EventThenQueueThenRender ==
  [][pc = "process"
     => (last.op \in {"event", "msg"} /\ pc' \in {"draw", "err"})]_vars

\* C20 as the code has it: a tick is the render, then one queue step, then
\* at most one input event and the handling of its message.  The queue
\* step comes only straight after the draw, the event only straight after
\* the queue step, a message only after its event, and the next draw only
\* after the event or the message; the queue step runs exactly the front
\* command when the queue is not empty and nothing when it is, and no
\* other step runs a command.
C20_RenderThenQueueThenEvent ==
  [][/\ pc' = "process" => (pc = "draw" /\ last'.op = "draw")
     /\ pc' = "event" => (pc = "process" /\ last'.op = "process")
     /\ pc' = "msg" => (pc = "event" /\ last'.op = "event" /\ last'.key /= "")
     /\ pc' = "draw" => pc \in {"event", "msg"}
     /\ (pc = "process" /\ queued_jj_commands /= <<>>)
          => (ran' = Append(ran, queued_jj_commands[1]) /\ ran_in_tick' = 1)
     /\ (pc = "process" /\ queued_jj_commands = <<>>)
          => (ran' = ran /\ ran_in_tick' = 0)
     /\ pc /= "process" => (ran' = ran \/ ran' = <<>>)]_vars

\* C20 witness: a tick in which git fetch was run by the queue step and
\* then a key was read and its message handled, before the next draw.
C20_Witness ==
  /\ pc = "draw"
  /\ last.op = "msg" /\ last.msg = "SelectNextNode"
  /\ ran_in_tick = 1
  /\ Len(batch) = 2 /\ Len(ran) = 1 /\ Len(queued_jj_commands) = 1

\* The length of the deepest registered path.
C21_DeepestPath ==
  CHOOSE n \in {Len(CommandTreeItems[i].keys) : i \in 1..Len(CommandTreeItems)} :
    \A i \in 1..Len(CommandTreeItems) : Len(CommandTreeItems[i].keys) <= n

\* What the registration list says a key pressed after a chord resolves to.
C21_Outcome(chord, key) ==
  LET regs == Registrations(Append(chord, key)) IN
  IF regs = {} THEN [kind |-> "Unresolved", chord |-> chord, msg |-> None]
  ELSE LET node == CommandTreeItems[CHOOSE i \in regs : TRUE].node IN
       IF IsSome(node.action)
       THEN [kind |-> "Action", msg |-> node.action,
             chord |-> IF node.children THEN Append(chord, key) ELSE <<>>]
       ELSE [kind |-> "Menu", chord |-> Append(chord, key), msg |-> None]

\* C21: a key handed to the trie ends in exactly one of Unresolved (no
\* Message, chord as before), Menu (no Message, chord extended) or Action
\* (a Message); which one, the Message and the chord left are fixed by the
\* chord and the key alone, whatever the selection, the register and the
\* notice are; the chord left is again a node with children (or empty), so
\* the same holds for the next key, and it is never longer than the
\* deepest registered path.
C21_ResolutionDeterministicTotal ==
  [][(/\ pc = "event"
      /\ last'.op = "event"
      /\ last'.key /= "")
     => /\ pc' \in {"draw", "msg"}
        /\ command_keys' \in InteriorChords
        /\ Len(command_keys') < C21_DeepestPath
        /\ last'.key \notin DirectKeys
             => LET out == C21_Outcome(command_keys, last'.key) IN
                  /\ Cardinality(Registrations(Append(command_keys, last'.key))) <= 1
                  /\ current_msg' = out.msg
                  /\ command_keys' = out.chord
                  /\ pc' = IF out.kind = "Action" THEN "msg" ELSE "draw"]_vars

\* C21 witness: the key a resolved to a menu with c2's file row selected,
\* a register set and a notice shown before.
C21_Witness ==
  /\ pc = "draw"
  /\ last.op = "event" /\ last.key = "a"
  /\ command_keys = <<"a">>
  /\ saved_change_id = Some("c1")
  /\ selected = 4

----------------------------------------------------------------------------
(* C22: two-step protocol symmetry *)

\* The command and flag words of the families below; every other argument
\* is an operand (a revision, a range, a file path).
C22_FlagWords ==
  {"sign", "unsign", "parallelize", "absorb", "squash", "restore", "duplicate",
   "revert", "diff", "show", "interdiff", "-r", "--from", "--into", "--to",
   "--onto", "--insert-after", "--insert-before", "--changes-in", "--revision",
   "--revisions", "--restore-descendants", "--summary"}

\* The invocation shape of a descriptor: its command and flags with the
\* operands blanked, its execution mode, surfaced stream and resync flag.
C22_Shape(cmd) ==
  [args |-> [i \in 1..Len(cmd.args) |->
               IF cmd.args[i] \in C22_FlagWords THEN cmd.args[i] ELSE "_"],
   interactive |-> cmd.interactive,
   return_output |-> cmd.return_output,
   sync |-> cmd.sync]

\* Each destination action with the non-range action of its family.
C22_Families ==
  { <<"SignRange", "Sign">>, <<"UnsignRange", "Unsign">>,
    <<"ParallelizeRange", "Parallelize">>, <<"AbsorbInto", "Absorb">>,
    <<"SquashInto", "Squash">>, <<"RestoreFromInto", "Restore">>,
    <<"DuplicateOnto", "Duplicate">>, <<"RevertOntoDestination", "Revert">>,
    <<"ViewFromSelectionToDestination", "ViewFromSelection">>,
    <<"InterdiffFromSelectionToDestination", "InterdiffFromSelection">> }

\* The register holds the selected element, as SaveSelection leaves it.
C22_SavedIsSelected ==
  /\ IsSome(saved_change_id)
  /\ saved_change_id = save_selection(Cur).saved_change_id
  /\ saved_file_path = save_selection(Cur).saved_file_path
  /\ saved_log_index = save_selection(Cur).saved_log_index

\* C22: with the register holding the selected element, the destination
\* action of every family enqueues one descriptor, and its shape (command and
\* flags, execution mode, surfaced stream, resync flag) is the shape of the
\* descriptor the family's non-range action builds from the same selection.
C22_TwoStepSameShape ==
  [][\A f \in C22_Families :
       (pc = "msg" /\ current_msg = Some(f[1]) /\ C22_SavedIsSelected)
         => LET alone == handle_msg(Cur, f[2], <<EditorNone, EditorNone>>, LoadErr) IN
              /\ Len(queued_jj_commands') = 1
              /\ Len(alone.queued_jj_commands) = 1
              /\ C22_Shape(queued_jj_commands'[1])
                   = C22_Shape(alone.queued_jj_commands[1])]_vars

\* The families whose destination constructor is the non-range constructor.
C22_SameConstructor ==
  {"SignRange", "UnsignRange", "ParallelizeRange", "RevertOntoDestination",
   "ViewFromSelectionToDestination", "InterdiffFromSelectionToDestination"}

\* C22 as the code has it: with the register holding the selected element,
\* the destination action of every family enqueues one descriptor with the
\* command word, surfaced stream and resync flag of the descriptor the
\* family's non-range action builds from the same selection; for sign, unsign,
\* parallelize, revert, view (from selection) and interdiff (from selection)
\* the whole shape is the same; the destination actions of absorb, squash,
\* restore and duplicate have flags of their own, and that of squash is
\* interactive whatever the description.
C22_TwoStepSameCommandAndStream ==
  [][\A f \in C22_Families :
       (pc = "msg" /\ current_msg = Some(f[1]) /\ C22_SavedIsSelected)
         => LET alone == handle_msg(Cur, f[2], <<EditorNone, EditorNone>>, LoadErr) IN
              /\ Len(queued_jj_commands') = 1
              /\ Len(alone.queued_jj_commands) = 1
              /\ queued_jj_commands'[1].args[1] = alone.queued_jj_commands[1].args[1]
              /\ queued_jj_commands'[1].return_output
                   = alone.queued_jj_commands[1].return_output
              /\ queued_jj_commands'[1].sync = alone.queued_jj_commands[1].sync
              /\ queued_jj_commands'[1].interactive
                   = (alone.queued_jj_commands[1].interactive \/ f[1] = "SquashInto")
              /\ (f[1] \in C22_SameConstructor)
                   = (C22_Shape(queued_jj_commands'[1])
                        = C22_Shape(alone.queued_jj_commands[1]))]_vars

\* SignRange has been handled with the register holding the selected
\* revision: the range runs from it to itself.
C22_Witness ==
  /\ pc = "draw" /\ last.op = "msg" /\ last.msg = "SignRange"
  /\ saved_change_id = Some("c1") /\ selected = 0
  /\ Len(queued_jj_commands) = 1
  /\ queued_jj_commands[1].args = <<"sign", "-r", "c1::c1">>

----------------------------------------------------------------------------
(* C23: squash chooses its descriptor by the selected revision's description *)

\* The top-level node the selected row lies in, and the file of a file row.
C23_SelectedPos == flatten_log(jj_log)[selected + 1]
C23_SelectedNode == jj_log[C23_SelectedPos[1] + 1]
C23_SelectedFile ==
  IF Len(C23_SelectedPos) = 2
  THEN <<C23_SelectedNode.files[C23_SelectedPos[2] + 1]>> ELSE <<>>

\* C23: Squash on a row that resolves to no revision gives Invalid selection
\* and enqueues nothing; on a row of a revision it enqueues one squash of that
\* revision (and of the selected file, on a file row), captured exactly when
\* the revision has no description and interactive otherwise, with the same
\* arguments, surfaced stream and resync flag in both cases.
C23_SquashModeByDescription ==
  [][(pc = "msg" /\ current_msg = Some("Squash"))
       => IF C23_SelectedNode.kind /= "commit"
          THEN /\ info_list' = InvalidSelectionNotice
               /\ queued_jj_commands' = queued_jj_commands
          ELSE /\ Len(queued_jj_commands') = 1
               /\ queued_jj_commands'[1].args
                    = <<"squash", "--revision", C23_SelectedNode.change_id>>
                        \o C23_SelectedFile
               /\ queued_jj_commands'[1].interactive
                    = (C23_SelectedNode.description_first_line /= None)
               /\ queued_jj_commands'[1].return_output = "Stderr"
               /\ queued_jj_commands'[1].sync]_vars

\* Squash has enqueued a captured squash of the file row of the revision
\* without description.
C23_Witness ==
  /\ pc = "draw" /\ last.op = "msg" /\ last.msg = "Squash"
  /\ selected = 1
  /\ Len(queued_jj_commands) = 1
  /\ queued_jj_commands[1].args = <<"squash", "--revision", "c1", "f1">>
  /\ ~queued_jj_commands[1].interactive

----------------------------------------------------------------------------
(* C24: the unbound-suffix line *)

\* The step handles a key press that resolves to no node of the trie.
C24_UnboundPress ==
  /\ pc = "event" /\ last'.op = "event"
  /\ last'.key \notin DirectKeys \cup {""}
  /\ Registrations(Append(command_keys, last'.key)) = {}
  /\ pc' /= "panic"

\* C24 as stated: on a notice that ends with an unbound-suffix line, a
\* press of the same unbound key replaces that line and a press of a different
\* unbound key adds a blank line and a new unbound-suffix line.
C24_DifferentKeyStartsNewLine ==
  [][(C24_UnboundPress /\ last'.before /= "")
       => IF last'.before = last'.key
          THEN info_list' = Some(Append(Front(Unwrap(info_list)),
                                        unbound_error_line(last'.key)))
          ELSE info_list' = Some(Unwrap(info_list)
                                   \o << <<>>, unbound_error_line(last'.key) >>)]_vars

\* C24 as the code has it: a press of an unbound key on a notice that
\* ends with an unbound-suffix line replaces that line, whether the key is the
\* same or a different one, so the notice does not grow; with no notice the
\* line is the whole notice; under any other notice the line is added after a
\* separating blank line.
C24_UnboundReplacesLastLine ==
  [][C24_UnboundPress
       => info_list' =
            IF info_list = None THEN Some(<<unbound_error_line(last'.key)>>)
            ELSE IF last'.before /= ""
            THEN Some(Append(Front(Unwrap(info_list)), unbound_error_line(last'.key)))
            ELSE Some(Unwrap(info_list) \o << <<>>, unbound_error_line(last'.key) >>)]_vars

\* An unbound key has been pressed under a menu whose notice showed the
\* unbound-suffix line of a different key: the notice is the menu, a blank
\* line and the new key's line.
C24_Witness ==
  /\ pc = "draw" /\ last.op = "event"
  /\ last.before /= "" /\ last.before /= last.key
  /\ command_keys /= <<>>
  /\ info_list = Some(get_help(command_keys) \o << <<>>, unbound_error_line(last.key) >>)

----------------------------------------------------------------------------
(* C25: the columns of a help text *)

\* The step shows a help text: a key press that resolves to a node with
\* children, or ShowHelp.
C25_MenuShown ==
  /\ pc = "event" /\ last'.op = "event"
  /\ last'.key \notin DirectKeys \cup {""}
  /\ Append(command_keys, last'.key) \in DOMAIN CommandTree
  /\ CommandTree[Append(command_keys, last'.key)].children
C25_HelpShown == C25_MenuShown \/ (pc = "msg" /\ current_msg = Some("ShowHelp"))

\* The chord whose help the step shows.
C25_Chord == IF pc = "msg" THEN <<>> ELSE Append(command_keys, last'.key)

\* The number of entries listed under each group label: the registrations
\* under the chord and, at the root, the navigation and general keys.
C25_Labels(chord) ==
  {CommandTreeItems[i].group : i \in {i \in 1..Len(CommandTreeItems) :
                                        Front(CommandTreeItems[i].keys) = chord}}
    \cup (IF chord = <<>> THEN {"Navigation", "General"} ELSE {})
C25_Count(chord, label) ==
  Cardinality({i \in 1..Len(CommandTreeItems) :
                 Front(CommandTreeItems[i].keys) = chord /\ CommandTreeItems[i].group = label})
    + (IF chord = <<>> /\ label = "Navigation" THEN Len(nav_help) ELSE 0)
    + (IF chord = <<>> /\ label = "General" THEN Len(general_help) ELSE 0)

\* ceil(n / MAX_ENTRIES_PER_COL), summed over the labels.
RECURSIVE C25_ColumnsOf(_, _)
C25_ColumnsOf(chord, labels) ==
  IF labels = {} THEN 0
  ELSE LET label == CHOOSE l \in labels : TRUE IN
       (C25_Count(chord, label) + MAX_ENTRIES_PER_COL - 1) \div MAX_ENTRIES_PER_COL
         + C25_ColumnsOf(chord, labels \ {label})

\* The widths, in characters, of the cells of a row: the row opens with a
\* one-blank span; the cell of an entry is four spans and opens with the
\* green key, any other cell is one span.
RECURSIVE C25_CellWidths(_)
C25_CellWidths(spans) ==
  IF Len(spans) = 0 THEN <<>>
  ELSE IF spans[1].fg = "Green"
  THEN <<Len(spans[1].content) + Len(spans[2].content) + Len(spans[3].content)
           + Len(spans[4].content)>> \o C25_CellWidths(SubSeq(spans, 5, Len(spans)))
  ELSE <<Len(spans[1].content)>> \o C25_CellWidths(Tail(spans))

\* C25: in every help text shown, every row has one cell for each column,
\* ceil(n / MAX_ENTRIES_PER_COL) columns for a group of n entries, and every
\* cell is exactly COL_WIDTH characters wide, so that all rows have the same
\* length.
C25_CellsExactlyColumnWidth ==
  [][C25_HelpShown
       => LET text == Unwrap(info_list')
              columns == C25_ColumnsOf(C25_Chord, C25_Labels(C25_Chord))
          IN \A r \in 1..Len(text) :
               LET widths == C25_CellWidths(Tail(text[r])) IN
                 /\ text[r][1] = SpanRaw(" ")
                 /\ Len(widths) = columns
                 /\ \A c \in 1..Len(widths) : widths[c] = COL_WIDTH]_vars

----------------------------------------------------------------------------
(* C26: the help listing of a node *)

\* The registrations under a chord, and the first one of a group label.
C26_Under(chord) ==
  {i \in 1..Len(CommandTreeItems) : Front(CommandTreeItems[i].keys) = chord}
C26_First(chord, label) ==
  CHOOSE i \in C26_Under(chord) :
    /\ CommandTreeItems[i].group = label
    /\ \A j \in C26_Under(chord) : CommandTreeItems[j].group = label => i <= j
C26_EntryOf(i) ==
  <<CommandTreeItems[i].keys[Len(CommandTreeItems[i].keys)], CommandTreeItems[i].help>>
C26_Registration(chord, entry) == CHOOSE i \in C26_Under(chord) : C26_EntryOf(i) = entry

\* The listing has one group for each label registered under the chord, in
\* the order in which the labels were first registered, and each group holds
\* exactly the entries registered with its label.
C26_Grouped(listing, chord) ==
  /\ {listing[g].group : g \in 1..Len(listing)}
       = {CommandTreeItems[i].group : i \in C26_Under(chord)}
  /\ \A g, h \in 1..Len(listing) :
       g < h => C26_First(chord, listing[g].group) < C26_First(chord, listing[h].group)
  /\ \A g \in 1..Len(listing) :
       LET registered == {i \in C26_Under(chord) :
                            CommandTreeItems[i].group = listing[g].group} IN
         /\ Len(listing[g].entries) = Cardinality(registered)
         /\ {listing[g].entries[k] : k \in 1..Len(listing[g].entries)}
              = {C26_EntryOf(i) : i \in registered}

\* The entries of every group are in non-decreasing order of component n
\* (1 the key, 2 the description), lower-cased; entries that are equal in it
\* are in registration order.
C26_Ordered(listing, chord, n) ==
  \A g \in 1..Len(listing) :
    \A j, k \in 1..Len(listing[g].entries) :
      j < k =>
        LET a == listing[g].entries[j]
            b == listing[g].entries[k]
        IN /\ ~str_less(to_lowercase(b[n]), to_lowercase(a[n]))
           /\ to_lowercase(a[n]) = to_lowercase(b[n])
                => C26_Registration(chord, a) < C26_Registration(chord, b)

\* The help text of a listing: at the root the navigation and general keys
\* follow the registered groups.
C26_Rendered(listing, chord) ==
  render_help_text(
    IF chord = <<>>
    THEN listing \o << [group |-> "Navigation", entries |-> nav_help],
                       [group |-> "General", entries |-> general_help] >>
    ELSE listing)

\* The chords with a help text, the listing of each and its help text.
C26_Chords == {c \in DOMAIN CommandTree : CommandTree[c].children}
C26_Listing == [c \in C26_Chords |-> get_help_entries(help(c))]
C26_Text == [c \in C26_Chords |-> C26_Rendered(C26_Listing[c], c)]

\* The chords whose listing is grouped and ordered by component n.
C26_GroupedOrderedBy(n) ==
  {c \in C26_Chords : C26_Grouped(C26_Listing[c], c) /\ C26_Ordered(C26_Listing[c], c, n)}
C26_ByDescription == C26_GroupedOrderedBy(2)
C26_ByKey == C26_GroupedOrderedBy(1)

\* C26 as stated: the help text shown for a chord renders a listing
\* that groups the registrations under the chord by their group label and
\* orders each group case-insensitively by description.
C26_GroupedSortedByDescription ==
  [][C25_HelpShown
       => /\ info_list' = Some(C26_Text[C25_Chord])
          /\ C25_Chord \in C26_ByDescription]_vars

\* C26 as the code has it: the help text shown for a chord renders a
\* listing that groups the registrations under the chord by their group
\* label, the groups in the order of their first registration, and orders
\* each group case-insensitively by key, equal keys in registration order.
C26_GroupedSortedByKey ==
  [][C25_HelpShown
       => /\ info_list' = Some(C26_Text[C25_Chord])
          /\ C25_Chord \in C26_ByKey]_vars

\* The Restore menu is shown: its keys were registered as r, d, f, i, R and
\* are listed as d, f, i, r, R.
C26_Witness ==
  /\ pc = "draw" /\ last.op = "event" /\ last.key = "R"
  /\ command_keys = <<"R">>
  /\ IsSome(info_list) /\ Len(Unwrap(info_list)) = 6
  /\ [r \in 2..6 |-> Unwrap(info_list)[r][2].content]
       = [r \in 2..6 |-> <<"", "d", "f", "i", "r", "R">>[r]]

----------------------------------------------------------------------------
(* C27: when the chord is cleared *)

\* The step handles a key that handle_key passes to handle_command_key.
C27_ChordKey ==
  pc = "event" /\ last'.op = "event" /\ last'.key \notin DirectKeys \cup {""}

\* C27 as stated: a key with no edge under the chord (an invalid suffix)
\* leaves the chord empty.
C27_InvalidSuffixClearsChord ==
  [][(C27_ChordKey /\ Registrations(Append(command_keys, last'.key)) = {})
       => command_keys' = <<>>]_vars

\* C27 as the code has it: the chord is emptied by a key that resolves to
\* an action node without children and by Clear; a key with no edge under the
\* chord (an invalid suffix) does not empty it but leaves it as it was before
\* that key, and a key that resolves to a node with children extends it.
C27_ChordClearedOnTerminalOrClear ==
  [][/\ C27_ChordKey
          => LET chord == Append(command_keys, last'.key) IN
             command_keys' =
               IF Registrations(chord) = {} THEN command_keys
               ELSE IF CommandTree[chord].children THEN chord
               ELSE <<>>
     /\ (pc = "msg" /\ current_msg = Some("Clear")) => command_keys' = <<>>]_vars

\* An unbound key has been pressed under a chord of two keys: the chord is
\* those two keys still.
C27_Witness ==
  /\ pc = "draw" /\ last.op = "event" /\ last.key = "z"
  /\ command_keys = <<"b", "m">>
  /\ unbound_key_shown(info_list) = "z"

----------------------------------------------------------------------------
(* C28: one dispatch for an event *)

\* C28: a Message is dispatched only as the outcome of the event just
\* handled; every event that resolves to a Message is followed by its
\* dispatch; and the dispatch leaves no follow-up Message, so that the next
\* step is the render (or the exit with the error) and never a second
\* dispatch.
C28_OneDispatchPerEvent ==
  [][/\ pc' = "msg" => (pc = "event" /\ IsSome(current_msg'))
     /\ (pc = "event" /\ IsSome(current_msg')) => pc' = "msg"
     /\ pc = "msg" => /\ IsSome(current_msg)
                      /\ last'.op = "msg" /\ last'.msg = Unwrap(current_msg)
                      /\ current_msg' = None
                      /\ pc' \in {"draw", "err"}]_vars

\* SaveSelection has been dispatched from the chord r, o: no Message is
\* left and the render is next.
C28_Witness ==
  /\ pc = "draw" /\ last.op = "msg" /\ last.msg = "SaveSelection"
  /\ current_msg = None
  /\ command_keys = <<"r", "o">>
  /\ IsSome(saved_change_id)

----------------------------------------------------------------------------
(* C29: Clear *)

\* C29: the dispatch of Clear leaves no notice, an empty register, chord,
\* queue and accumulator, runs no command, and leaves the selection, the
\* revset, the ignore-immutable flag, the log and the Running state as they
\* were; the render is next.
C29_ClearEmptiesTransientState ==
  [][(pc = "msg" /\ current_msg = Some("Clear"))
       => /\ info_list' = None
          /\ RegisterEmpty'
          /\ command_keys' = <<>>
          /\ queued_jj_commands' = <<>>
          /\ accumulated_command_output' = <<>>
          /\ ran' = ran
          /\ UNCHANGED <<selected, revset, ignore_immutable, jj_log, state>>
          /\ state = "Running"
          /\ pc' = "draw"]_vars

\* Clear has been dispatched while commands of the batch were still
\* queued: they are gone without having been run.
C29_Witness ==
  /\ pc = "draw" /\ last.op = "msg" /\ last.msg = "Clear"
  /\ Len(batch) >= 2 /\ Len(ran) = 1
  /\ queued_jj_commands = <<>> /\ accumulated_command_output = <<>>
  /\ info_list = None

----------------------------------------------------------------------------
(* C30: the ignore-immutable toggle *)

\* C30: the dispatch of ToggleIgnoreImmutable flips the flag and changes
\* nothing else, so that a second toggle gives the first state back; the
\* queued descriptors are the last ones of the batch as built, and every
\* command run is the descriptor of the batch at its place, with the flag it
\* was built with, whatever the flag is when it runs.
C30_ToggleFlipsFlagOnly ==
  [][/\ (pc = "msg" /\ current_msg = Some("ToggleIgnoreImmutable"))
          => /\ ignore_immutable' = ~ignore_immutable
             /\ UNCHANGED <<state, command_keys, queued_jj_commands,
                            accumulated_command_output, saved_change_id,
                            saved_file_path, saved_log_index, jj_log, selected,
                            revset, info_list, batch, ran, outs, owns_terminal>>
             /\ handle_msg(handle_msg(Cur, "ToggleIgnoreImmutable",
                                      <<EditorNone, EditorNone>>, LoadErr),
                           "ToggleIgnoreImmutable", <<EditorNone, EditorNone>>, LoadErr)
                  = Cur
             /\ pc' = "draw"
     /\ Len(queued_jj_commands') <= Len(batch')
     /\ \A i \in 1..Len(queued_jj_commands') :
          queued_jj_commands'[i]
            = batch'[Len(batch') - Len(queued_jj_commands') + i]
     /\ (pc = "process" /\ Len(ran') > Len(ran))
          => /\ ran'[Len(ran')] = batch[Len(ran')]
             /\ ran'[Len(ran')] = queued_jj_commands[1]]_vars

\* The second command of a batch has run with the flag it was built with,
\* after the flag was toggled.
C30_Witness ==
  /\ last.op = "process"
  /\ Len(batch) = 2 /\ ran = batch
  /\ ignore_immutable
  /\ ~ran[2].global_args.ignore_immutable

----------------------------------------------------------------------------
(* C31 *)

\* The registrations a chord is a registered path of, read from the
\* registration list.
C31_RestsOnNodeWithChildren(chord) ==
  \/ chord = <<>>
  \/ \E i \in 1..Len(CommandTreeItems) :
       /\ CommandTreeItems[i].keys = chord
       /\ CommandTreeItems[i].node.children

\* C31: the chord is always empty or a registered path that ends at a node
\* with children (a menu or an action-with-children node), at most 3 keys
\* long: before a key is handled, after it is handled and after the Message
\* it resolved to is handled.  It never rests on a leaf or on an
\* unregistered path.
C31_ChordWellFormed ==
  /\ C31_RestsOnNodeWithChildren(command_keys)
  /\ Len(command_keys) <= 3

\* C31 witness: a key pressed after a chord of two keys led to a node with
\* children, and the chord rests there with three keys.
C31_Witness ==
  /\ last.op = "event"
  /\ last.key /= ""
  /\ Len(command_keys) = 3
  /\ command_keys[3] = last.key
  /\ C31_RestsOnNodeWithChildren(command_keys)

----------------------------------------------------------------------------
(* C33 *)

\* The Messages whose handler reads the saved register: the handlers that
\* begin with get_saved_change_id.
C33_ReadsRegister ==
  {msg \in C8_TrieMessages \ {"SaveSelection", "Squash", "View", "NewAfterTrunkSync"} :
     \E i \in 1..Len(Handler(msg).steps) : Handler(msg).steps[i] = "saved"}

\* The action registered at a chord, None if the chord is not registered or
\* has none.
C33_ActionAt(chord) ==
  IF Registrations(chord) = {} THEN None
  ELSE CommandTreeItems[CHOOSE i \in Registrations(chord) : TRUE].node.action

\* Every registration of a Message that reads the register is the Enter
\* child of a node whose action is SaveSelection, and every node with an
\* action and children has the action SaveSelection.
C33_BoundUnderSaveSelection ==
  /\ \A i \in 1..Len(CommandTreeItems) :
       LET keys == CommandTreeItems[i].keys
           node == CommandTreeItems[i].node
       IN /\ (IsSome(node.action) /\ Unwrap(node.action) \in C33_ReadsRegister)
               => /\ keys[Len(keys)] = "Enter"
                  /\ C33_ActionAt(Front(keys)) = Some("SaveSelection")
          /\ (IsSome(node.action) /\ node.children)
               => node.action = Some("SaveSelection")
  /\ C33_ReadsRegister /= {}

\* C33: a Message that reads the register is returned only for Enter
\* pressed under a chord whose node has the action SaveSelection; the key
\* press leaves the register as it is, and a register that is set was
\* stored by the SaveSelection of that very chord, not by an earlier chord
\* or another family; the handler runs on it right after the key press.
C33_RegisterFromSameChord ==
  [][/\ C33_BoundUnderSaveSelection
     /\ (/\ pc = "event"
         /\ IsSome(current_msg')
         /\ Unwrap(current_msg') \in C33_ReadsRegister)
        => /\ last'.key = "Enter"
           /\ C33_ActionAt(command_keys) = Some("SaveSelection")
           /\ UNCHANGED <<saved_change_id, saved_file_path, saved_log_index>>
           /\ IsSome(saved_change_id) => last.saver = Some(command_keys)
           /\ pc' = "msg"
     /\ (pc = "msg" /\ Unwrap(current_msg) \in C33_ReadsRegister)
        => /\ last.op = "event"
           /\ last.key = "Enter"
           /\ IsSome(saved_change_id) => IsSome(last.saver)]_vars

\* C33 witness: the interdiff of the two-step family i, i was built from a
\* register stored under the chord i, i, on another row than the one saved.
C33_Witness ==
  /\ last.op = "msg"
  /\ last.msg = "InterdiffFromSelectionToDestination"
  /\ last.saver = Some(<<"i", "i">>)
  /\ Len(queued_jj_commands) = 1
  /\ saved_log_index /= Some(selected)
  /\ IsSome(saved_change_id)

----------------------------------------------------------------------------
(* C34 *)

\* The queue step and its outcome: a queue step that ran a command.
C34_QueueStep == pc = "process" /\ Len(queued_jj_commands) > 0

\* C34: with no input event while a batch is pending, a queue step that
\* succeeds shortens the queue by exactly one, a step whose command fails
\* empties it, no other step of the loop changes a pending queue, and the
\* commands run and the commands left always add up to the batch: after k
\* ticks a batch of N has N - k commands left, so that a pending queue is
\* empty after at most N ticks unless an infrastructure failure ends the
\* program; and the loop does get there.
C34_QueueDrains ==
  /\ [][/\ (C34_QueueStep /\ pc' /= "err" /\ last'.result = "Ok")
             => /\ Len(queued_jj_commands') = Len(queued_jj_commands) - 1
                /\ Len(ran') = Len(ran) + 1
        /\ (C34_QueueStep /\ pc' /= "err" /\ last'.result = "Failed")
             => queued_jj_commands' = <<>>
        /\ (C34_QueueStep /\ pc' /= "err") => last'.result \in {"Ok", "Failed"}
        /\ (Len(queued_jj_commands) > 0 /\ pc /= "process")
             => /\ UNCHANGED <<queued_jj_commands, batch, ran>>
                /\ pc \in {"draw", "event"}
        /\ Len(queued_jj_commands') > 0
             => Len(queued_jj_commands') + Len(ran') = Len(batch')
        /\ (pc = "draw" /\ pc' = "process") => ran_in_tick' = 0
        /\ ran_in_tick' <= 1]_vars
  /\ (Len(queued_jj_commands) > 0) ~> (queued_jj_commands = <<>> \/ pc = "err")

\* C34 witness: the second command of a batch of two has run and emptied
\* the queue, one command in each of two ticks.
C34_Witness ==
  /\ last.op = "process"
  /\ last.result = "Ok"
  /\ Len(batch) = 2
  /\ Len(ran) = 2
  /\ ran_in_tick = 1
  /\ queued_jj_commands = <<>>
  /\ pc = "event"

----------------------------------------------------------------------------
(* C37 *)

\* The dispatch of SetRevset.
C37_SetRevset == pc = "msg" /\ current_msg = Some("SetRevset")

----------------------------------------------------------------------------
(* C38 *)

\* The read-only viewing commands: show, the interactive diff, status,
\* evolog and interdiff.
C38_Viewing(cmd) ==
  \/ cmd.args[1] \in {"show", "status", "evolog", "interdiff"}
  \/ cmd.args[1] = "diff" /\ cmd.interactive

\* The Messages that view.
C38_ViewingMessages ==
  {"View", "ViewFromSelection", "ViewToSelection", "ViewFromSelectionToDestination",
   "Status", "Evolog", "EvologPatch", "InterdiffFromSelection", "InterdiffToSelection",
   "InterdiffFromSelectionToDestination"}

\* The last command of a batch has run with exit 0 and its output was read.
C38_BatchSucceeded ==
  /\ pc = "process"
  /\ Len(queued_jj_commands) = 1
  /\ last'.result = "Ok"
  /\ last'.path /= "encoding"

\* C38: the sync flag of every descriptor a handler enqueues is false
\* exactly if the command is one of the viewing commands, and the viewing
\* Messages are the ones whose batch consists of such commands; a batch
\* that succeeded calls sync exactly if its last command is not a viewing
\* command: after a viewing batch the log and the selection are as before,
\* after any other the log is the one loaded and the selection is reset
\* to its working copy.
C38_ResyncFlagStatic ==
  [][/\ (pc = "msg" /\ batch' /= <<>> /\ batch = <<>>)
          => /\ queued_jj_commands' = batch'
             /\ \A i \in 1..Len(batch') : batch'[i].sync = ~C38_Viewing(batch'[i])
             /\ \A i \in 1..Len(batch') :
                  C38_Viewing(batch'[i]) <=> Unwrap(current_msg) \in C38_ViewingMessages
     /\ C38_BatchSucceeded
          => IF C38_Viewing(queued_jj_commands[1])
             THEN /\ ~last'.sync_called
                  /\ UNCHANGED <<jj_log, selected>>
                  /\ pc' = "event"
             ELSE /\ last'.sync_called
                  /\ pc' = "event"
                       => \E log \in Logs :
                            /\ jj_log' = sync(Cur, LoadOk(log)).jj_log
                            /\ selected' = sync(Cur, LoadOk(log)).selected]_vars

\* C38 witness: the interactive diff of View on a file row has run with
\* exit 0, and the selection is still on that row, not on the working copy.
C38_Witness ==
  /\ last.op = "process"
  /\ last.result = "Ok"
  /\ ~last.sync_called
  /\ Len(batch) = 1
  /\ batch[1].args[1] = "diff"
  /\ ran = batch
  /\ Len(log_list_tree_positions(Cur)[selected + 1]) = 2
  /\ pc = "event"

----------------------------------------------------------------------------
(* C39 *)

\* The registration list is well formed: no chord holds a key of the
\* top-level key map, no chord is registered twice, every proper prefix of a
\* chord is registered before it as a node with children, every node with
\* children has a child, and the tree built from the list holds exactly the
\* registered chords, each with the node registered for it.
C39_WellFormed ==
  /\ \A i \in 1..Len(CommandTreeItems) :
       LET keys == CommandTreeItems[i].keys IN
       /\ Len(keys) > 0
       /\ \A n \in 1..Len(keys) : keys[n] \notin DirectKeys
       /\ Registrations(keys) = {i}
       /\ \A n \in 1..(Len(keys) - 1) :
            \E j \in 1..(i - 1) :
              /\ CommandTreeItems[j].keys = SubSeq(keys, 1, n)
              /\ CommandTreeItems[j].node.children
       /\ CommandTreeItems[i].node.children
            => \E j \in 1..Len(CommandTreeItems) :
                 Front(CommandTreeItems[j].keys) = keys
       /\ CommandTreeItems[i].node.children => Len(help(keys)) > 0
  /\ CommandTreeBuilt.built
  /\ DOMAIN CommandTree
       = {<<>>} \cup {CommandTreeItems[i].keys : i \in 1..Len(CommandTreeItems)}
  /\ \A i \in 1..Len(CommandTreeItems) :
       CommandTree[CommandTreeItems[i].keys] = CommandTreeItems[i].node

\* C39: the registration list is well formed, and every registered chord
\* is reached from the keyboard: its last key, pressed when the chord in
\* progress is the rest of it, is not taken by the top-level key map and
\* resolves to the node registered, without a panic; a node with children
\* shows its help and keeps the chord.
C39_EveryChordReachable ==
  [][/\ C39_WellFormed
     /\ (/\ pc = "event"
         /\ last'.op = "event"
         /\ Registrations(Append(command_keys, last'.key)) /= {})
        => LET chord == Append(command_keys, last'.key)
               node == CommandTreeItems[CHOOSE i \in Registrations(chord) : TRUE].node
           IN /\ pc' /= "panic"
              /\ current_msg' = node.action
              /\ node.children
                   => /\ command_keys' = chord
                      /\ info_list' = Some(render_help_text(get_help_entries(help(chord))))
                      /\ Len(Unwrap(info_list')) > 1
              /\ ~node.children => command_keys' = <<>>]_vars

\* C39 witness: the deepest chord, b m m Enter, was entered and resolved to
\* BookmarkMove.
C39_Witness ==
  /\ last.op = "event"
  /\ last.key = "Enter"
  /\ current_msg = Some("BookmarkMove")
  /\ command_keys = <<>>
  /\ saved_log_index /= None
  /\ pc = "msg"

----------------------------------------------------------------------------
(* C35: the saved row index and the saved revision                         *)

C35_SavedIndexInList ==
  IsSome(saved_log_index) => Unwrap(saved_log_index) < Len(flatten_log(jj_log))

----------------------------------------------------------------------------
(* C36: the selected row stays within the list                             *)

\* The selected row is a row of the list.
C36_SelectedInList == selected >= 0 /\ selected < Len(flatten_log(jj_log))

\* scroll_lines is about to subtract the offset from the selected row.
C36_AtScrollLines ==
  pc = "msg" /\ current_msg \in {Some("ScrollDownPage"), Some("ScrollUpPage")}

\* C36: whenever a Message has been handled (the program has not ended with
\* an error or a panic) the selected row index is within [0, len(log_list)
\* - 1], and whenever ScrollDownPage or ScrollUpPage is about to be handled
\* the offset is not greater than the selected row, so that selected -
\* offset is never computed with offset > selected.
C36_SelectionWithinBounds ==
  /\ (last.op = "msg" /\ pc = "draw") => C36_SelectedInList
  /\ C36_AtScrollLines => offset <= selected

\* C36, first half alone: a handled Message leaves the selection in the list.
C36_HandledLeavesSelectionInList ==
  (last.op = "msg" /\ pc = "draw") => C36_SelectedInList

\* C36, second half alone: a page scroll starts with offset <= selected.
C36_PageScrollNeverBelowOffset == C36_AtScrollLines => offset <= selected


----------------------------------------------------------------------------
(* C32: navigation leaves the chord, the register and the queue alone      *)

\* The Message of each navigation, fold and help key of the top-level map.
C32_KeyMessage(key) ==
  CASE key \in {"Down", "j"} -> "SelectNextNode"
    [] key \in {"Up", "k"} -> "SelectPrevNode"
    [] key = "PageDown" -> "ScrollDownPage"
    [] key = "PageUp" -> "ScrollUpPage"
    [] key \in {"Left", "h"} -> "SelectPrevSiblingNode"
    [] key \in {"Right", "l"} -> "SelectNextSiblingNode"
    [] key = "K" -> "SelectParentNode"
    [] key = "Tab" -> "ToggleLogListFold"
    [] key = "@" -> "SelectCurrentWorkingCopy"
    [] key = "?" -> "ShowHelp"

\* The navigation and fold messages, the mouse's messages and ShowHelp.
C32_Messages ==
  {C32_KeyMessage(key) : key \in FrameKeys}
    \cup {"ScrollDown", "ScrollUp", "LeftMouseClick", "RightMouseClick"}

\* C32: a navigation, fold or help key is resolved by the top-level key map
\* whatever the chord is, without the trie being consulted (the chord and
\* the notice stay as they are); reading such a key or a mouse event, and
\* handling the Message it resolves to, leave the chord, the saved register
\* and the command queue unchanged; so Enter, pressed after the selection
\* was moved, resolves to the action of the node the same chord and Enter
\* lead to.
C32_NavigationKeepsWorkflow ==
  [][/\ (pc = "event" /\ last'.key \in FrameKeys)
          => /\ current_msg' = Some(C32_KeyMessage(last'.key))
             /\ UNCHANGED <<command_keys, info_list>>
     /\ \/ pc = "event" /\ current_msg' \in {Some(msg) : msg \in C32_Messages}
        \/ pc = "msg" /\ current_msg \in {Some(msg) : msg \in C32_Messages}
        => UNCHANGED <<command_keys, saved_change_id, saved_file_path, saved_log_index,
                       queued_jj_commands>>
     /\ (pc = "event" /\ last'.key = "Enter"
           /\ IsSome(get_node(command_keys \o <<"Enter">>)))
          => current_msg' = Unwrap(get_node(command_keys \o <<"Enter">>)).action
    ]_vars

\* C32 witness: SelectNextSiblingNode has been handled with the chord r, o in
\* progress and the register holding c1; the selection is on another row
\* than the saved one and Enter resolves to the chord's destination action.
C32_Witness ==
  /\ last.op = "msg" /\ last.msg = "SelectNextSiblingNode" /\ pc = "draw"
  /\ command_keys = <<"r", "o">>
  /\ saved_change_id = Some("c1") /\ saved_log_index = Some(0)
  /\ selected /= 0
  /\ Unwrap(get_node(command_keys \o <<"Enter">>)).action = Some("RebaseOntoDestination")

====
